---- MODULE Spec2Model ----
(***************************************************************************)
(* A model of pycdlib/udf.py: the UDF descriptor codec.  Every class of    *)
(* the file is an object whose slots are a function from slot names to     *)
(* values (a slot that was never assigned is absent from the domain, as an *)
(* unassigned __slots__ attribute is); byte strings are sequences of       *)
(* 0..255, packed and unpacked at the offsets struct's format strings      *)
(* give.  The file is Python 2 code (bytes is str, "/" on ints is floor    *)
(* division, str(bytearray) is the raw bytes) and is modelled as such.     *)
(***************************************************************************)
EXTENDS Integers, Sequences, FiniteSets, TLC

VARIABLES kind, obj, op, arg, err, msg, ret, hist

vars == <<kind, obj, op, arg, err, msg, ret, hist>>

(***************************************************************************)
(* Bytes and struct                                                        *)
(***************************************************************************)

Min(a, b) == IF a < b THEN a ELSE b

\* n zero bytes: b'\x00' * n
Zeros(n) == [i \in 1..n |-> 0]

\* Python's data[a:b] on a byte string (offsets from 0, clipped to the data).
Slice(data, a, b) == SubSeq(data, a + 1, Min(b, Len(data)))

\* Python's data[a:]
SliceFrom(data, a) == SubSeq(data, a + 1, Len(data))

\* 256^(i-1) for the four low bytes of an integer.
Pow256 == <<1, 256, 65536, 16777216>>

\* struct.pack of one little-endian unsigned integer of n bytes ("=B", "=H",
\* "=L", "=Q").  The integers here are below 2^31 (the checker's integers are
\* 32 bits wide), so the bytes past the fourth are 0.
PackInt(x, n) == [i \in 1..n |-> IF i <= 4 THEN (x \div Pow256[i]) % 256 ELSE 0]

\* An unsigned integer that may reach 2^31 and that the file only stores and
\* writes back (uid, gid, the random bits of the volume set identifier) is
\* held as its little-endian base-256 digits: struct.pack writes the digits,
\* struct.unpack reads them.
PackWide(w, n) == [i \in 1..n |-> IF i <= Len(w) THEN w[i] ELSE 0]
UnpackWide(data, off, n) == SubSeq(data, off + 1, off + n)

RECURSIVE UnpackFrom(_, _, _)
\* struct.unpack of one little-endian unsigned integer of n bytes at offset off.
UnpackFrom(data, off, n) ==
    IF n = 0 THEN 0 ELSE data[off + 1] + 256 * UnpackFrom(data, off + 1, n - 1)

\* struct.pack of "<n>s": the bytes, cut or NUL-padded to n.
PackStr(s, n) == [i \in 1..n |-> IF i <= Len(s) THEN s[i] ELSE 0]

\* Python 2's "{:\x00<n}".format(s): s padded on the right to at least n.  The
\* fill character of the format is NUL, which str.__format__ of Python 2
\* takes for "no fill character given" and writes as its default, the space.
FormatPad(s, n) == IF Len(s) >= n THEN s ELSE s \o [i \in 1..(n - Len(s)) |-> 32]

\* The byte values of the ASCII strings the file compares against or writes.
Ascii ==
    [BEA01 |-> <<66, 69, 65, 48, 49>>,
     NSR02 |-> <<78, 83, 82, 48, 50>>,
     TEA01 |-> <<84, 69, 65, 48, 49>>,
     UDFLVInfo |-> <<42, 85, 68, 70, 32, 76, 86, 32, 73, 110, 102, 111>>,
     PlusNSR02 |-> <<43, 78, 83, 82, 48, 50>>,
     OSTACompliant |-> <<42, 79, 83, 84, 65, 32, 85, 68, 70, 32, 67, 111, 109,
                        112, 108, 105, 97, 110, 116>>,
     OSTAUnicode |-> <<0, 79, 83, 84, 65, 32, 67, 111, 109, 112, 114, 101, 115,
                       115, 101, 100, 32, 85, 110, 105, 99, 111, 100, 101>>,
     CDROM |-> <<8, 67, 68, 82, 79, 77>>,
     genisoimage |-> <<42, 103, 101, 110, 105, 115, 111, 105, 109, 97, 103, 101>>]

(***************************************************************************)
(* Bitwise operators on naturals                                           *)
(***************************************************************************)

RECURSIVE XorBits(_, _, _)
XorBits(a, b, n) ==
    IF n = 0 THEN 0
    ELSE (((a % 2) + (b % 2)) % 2) + 2 * XorBits(a \div 2, b \div 2, n - 1)

\* a ^ b for bytes, tabulated once: entry a * 256 + b + 1.
Xor8 == SubSeq([k \in 1..65536 |-> XorBits((k - 1) \div 256, (k - 1) % 256, 8)], 1, 65536)

RECURSIVE BitXor(_, _)
\* a ^ b
BitXor(a, b) ==
    IF a < 256 /\ b < 256 THEN Xor8[a * 256 + b + 1]
    ELSE Xor8[(a % 256) * 256 + (b % 256) + 1] + 256 * BitXor(a \div 256, b \div 256)

\* (a & (1 << k)) != 0
BitSet(a, k) == (a \div (2 ^ k)) % 2 = 1

(***************************************************************************)
(* Exceptions                                                              *)
(***************************************************************************)

NoError == "ok"
InternalError == "PyCdlibInternalError"
InvalidISO == "PyCdlibInvalidISO"
InvalidInput == "PyCdlibInvalidInput"
AttributeError == "AttributeError"
StructError == "struct.error"

\* Python's None, among the non-negative integers the extents are.
None == -1

\* The outcome of a method call: the object afterwards, the exception raised
\* (or NoError) with its message, and the value returned.
Return(o, v) == [obj |-> o, err |-> NoError, msg |-> "", ret |-> v]
Raise(o, e, m) == [obj |-> o, err |-> e, msg |-> m, ret |-> None]

\* self.k = v
Set(o, k, v) == (k :> v) @@ o

\* __init__ of every class but UDFFileEntry and UDFFileIdentifierDescriptor.
NewObject == ("_initialized" :> FALSE)

\* A method under way: the object as assigned so far and the exception that
\* ended it, if any.  No statement runs after a raise.
Begin(self) == [obj |-> self, err |-> NoError, msg |-> ""]

\* if bad: raise e(m)
Check(p, bad, e, m) == IF p.err = NoError /\ bad THEN [p EXCEPT !.err = e, !.msg = m] ELSE p

\* self.k = v
Assign(p, k, v) == IF p.err = NoError THEN [p EXCEPT !.obj = Set(p.obj, k, v)] ELSE p

\* self.k = Class(); self.k.parse(...) where r is the outcome of the parse:
\* the attribute is bound before the parse can raise.
Sub(p, k, r) ==
    IF p.err = NoError THEN [obj |-> Set(p.obj, k, r.obj), err |-> r.err, msg |-> r.msg] ELSE p

\* if self.k.f != want: raise PyCdlibInvalidISO(m)
CheckAttr(p, k, f, want, m) ==
    IF p.err = NoError /\ p.obj[k][f] # want
    THEN [p EXCEPT !.err = InvalidISO, !.msg = m] ELSE p

\* if self.k.f[:n] != want: raise PyCdlibInvalidISO(m)
CheckPrefix(p, k, f, n, want, m) ==
    IF p.err = NoError /\ Slice(p.obj[k][f], 0, n) # want
    THEN [p EXCEPT !.err = InvalidISO, !.msg = m] ELSE p

\* The method's outcome: what it returns, or the exception it raised.
End(p, v) == IF p.err = NoError THEN Return(p.obj, v) ELSE Raise(p.obj, p.err, p.msg)

(***************************************************************************)
(* The CCITT CRC and the tag checksum                                      *)
(***************************************************************************)

POLYNOMIAL == 69665   \* 0x11021

RECURSIVE initialLoop(_, _, _)
initialLoop(crc, c, j) ==
    IF j = 0 THEN crc
    ELSE initialLoop(IF BitSet(BitXor(crc, c), 15)
                     THEN BitXor(crc * 2, POLYNOMIAL)
                     ELSE crc * 2,
                     c * 2, j - 1)

_initial(c) == initialLoop(0, c * 256, 8)

\* _tab[i] is entry i + 1.
_tab == SubSeq([i \in 1..256 |-> _initial(i - 1)], 1, 256)

\* _update_crc with the table read at the byte alone.
_update_crc_low(crc, c) ==
    LET cc == c % 256
    IN BitXor(crc * 256, _tab[cc + 1]) % 65536

_update_crc(crc, c) ==
    LET cc == c % 256
        tmp == BitXor(crc \div 256, cc)
    IN BitXor(crc * 256, _tab[(tmp % 256) + 1]) % 65536

RECURSIVE crcLoop(_, _, _, _)
\* for c in data[lo..hi]: crc = _update_crc(crc, c).  The range is halved so
\* that the evaluation stays shallow, and the running value is evaluated
\* (crc >= 0) before the second half starts from it.
crcLoop(data, lo, hi, crc) ==
    IF lo > hi \/ crc < 0 THEN crc
    ELSE IF lo = hi THEN _update_crc(crc, data[lo])
    ELSE LET mid == (lo + hi) \div 2
         IN crcLoop(data, mid + 1, hi, crcLoop(data, lo, mid, crc))

crc_ccitt(data) == crcLoop(data, 1, Len(data), 0)

RECURSIVE SumBytes(_, _, _)
SumBytes(data, lo, hi) ==
    IF lo > hi THEN 0
    ELSE IF lo = hi THEN data[lo]
    ELSE LET mid == (lo + hi) \div 2
         IN SumBytes(data, lo, mid) + SumBytes(data, mid + 1, hi)

\* _compute_csum with the sum started one byte late.
_compute_csum_late(data) == (SumBytes(data, 2, Len(data)) - data[5]) % 256

_compute_csum(data) == (SumBytes(data, 1, Len(data)) - data[5]) % 256

(***************************************************************************)
(* UDFTag                                                                  *)
(***************************************************************************)

\* UDFTag.parse with the CRC verified before the checksum.
UDFTag_parse_crc_first(self, data, extent, crc_bytes) ==
    IF self["_initialized"] THEN Raise(self, InternalError, "UDF Tag already initialized")
    ELSE IF Len(data) < 16 THEN Raise(self, StructError, "unpack_from requires a buffer of at least 16 bytes")
    ELSE End(Assign(Check(Check(Check(Check(Check(Check(
             Begin(Set(Set(Set(Set(self,
                   "tag_ident", UnpackFrom(data, 0, 2)),
                   "desc_version", UnpackFrom(data, 2, 2)),
                   "tag_serial_number", UnpackFrom(data, 6, 2)),
                   "tag_location", UnpackFrom(data, 12, 4))),
             UnpackFrom(data, 5, 1) # 0, InvalidISO, "Reserved data not 0!"),
             Len(crc_bytes) < UnpackFrom(data, 10, 2), InternalError, "Not enough CRC bytes to compute"),
             UnpackFrom(data, 8, 2) # crc_ccitt(Slice(crc_bytes, 0, UnpackFrom(data, 10, 2))),
             InvalidISO, "Tag CRC does not match!"),
             _compute_csum(data) # UnpackFrom(data, 4, 1), InvalidISO, "Tag checksum does not match!"),
             UnpackFrom(data, 12, 4) # extent, InvalidISO, "Tag location does not match actual location"),
             UnpackFrom(data, 2, 2) \notin {2, 3}, InvalidISO, "Tag version not 2 or 3"),
             "_initialized", TRUE), None)

\* UDFTag.parse without the check of the length of crc_bytes: the CRC is
\* computed over the bytes there are.
UDFTag_parse_no_length(self, data, extent, crc_bytes) ==
    IF self["_initialized"] THEN Raise(self, InternalError, "UDF Tag already initialized")
    ELSE IF Len(data) < 16 THEN Raise(self, StructError, "unpack_from requires a buffer of at least 16 bytes")
    ELSE End(Assign(Check(Check(Check(Check(Check(
             Begin(Set(Set(Set(Set(self,
                   "tag_ident", UnpackFrom(data, 0, 2)),
                   "desc_version", UnpackFrom(data, 2, 2)),
                   "tag_serial_number", UnpackFrom(data, 6, 2)),
                   "tag_location", UnpackFrom(data, 12, 4))),
             UnpackFrom(data, 5, 1) # 0, InvalidISO, "Reserved data not 0!"),
             _compute_csum(data) # UnpackFrom(data, 4, 1), InvalidISO, "Tag checksum does not match!"),
             UnpackFrom(data, 12, 4) # extent, InvalidISO, "Tag location does not match actual location"),
             UnpackFrom(data, 2, 2) \notin {2, 3}, InvalidISO, "Tag version not 2 or 3"),
             UnpackFrom(data, 8, 2) # crc_ccitt(Slice(crc_bytes, 0, UnpackFrom(data, 10, 2))),
             InvalidISO, "Tag CRC does not match!"),
             "_initialized", TRUE), None)

UDFTag_parse(self, data, extent, crc_bytes) ==
    IF self["_initialized"] THEN Raise(self, InternalError, "UDF Tag already initialized")
    ELSE IF Len(data) < 16 THEN Raise(self, StructError, "unpack_from requires a buffer of at least 16 bytes")
    ELSE
    LET tag_checksum == UnpackFrom(data, 4, 1)
        reserved == UnpackFrom(data, 5, 1)
        desc_crc == UnpackFrom(data, 8, 2)
        desc_crc_length == UnpackFrom(data, 10, 2)
    IN End(Assign(Check(Check(Check(Check(Check(Check(
           Begin(Set(Set(Set(Set(self,
                 "tag_ident", UnpackFrom(data, 0, 2)),
                 "desc_version", UnpackFrom(data, 2, 2)),
                 "tag_serial_number", UnpackFrom(data, 6, 2)),
                 "tag_location", UnpackFrom(data, 12, 4))),
           reserved # 0, InvalidISO, "Reserved data not 0!"),
           _compute_csum(data) # tag_checksum, InvalidISO, "Tag checksum does not match!"),
           UnpackFrom(data, 12, 4) # extent, InvalidISO, "Tag location does not match actual location"),
           UnpackFrom(data, 2, 2) \notin {2, 3}, InvalidISO, "Tag version not 2 or 3"),
           Len(crc_bytes) < desc_crc_length, InternalError, "Not enough CRC bytes to compute"),
           desc_crc # crc_ccitt(Slice(crc_bytes, 0, desc_crc_length)),
           InvalidISO, "Tag CRC does not match!"),
           "_initialized", TRUE), None)

\* UDFTag.record with the CRC started one byte late.
UDFTag_record_crc_late(self, crc_bytes) ==
    IF ~self["_initialized"] THEN Raise(self, InternalError, "UDF Descriptor Tag not initialized")
    ELSE
    LET rec == PackInt(self["tag_ident"], 2) \o PackInt(self["desc_version"], 2)
               \o PackInt(0, 1) \o PackInt(0, 1)
               \o PackInt(self["tag_serial_number"], 2)
               \o PackInt(crc_ccitt(SliceFrom(crc_bytes, 1)), 2) \o PackInt(Len(crc_bytes), 2)
               \o PackInt(self["tag_location"], 4)
    IN Return(self, [rec EXCEPT ![5] = _compute_csum(rec)])

UDFTag_record(self, crc_bytes) ==
    IF ~self["_initialized"] THEN Raise(self, InternalError, "UDF Descriptor Tag not initialized")
    ELSE
    LET rec == PackInt(self["tag_ident"], 2) \o PackInt(self["desc_version"], 2)
               \o PackInt(0, 1) \o PackInt(0, 1)
               \o PackInt(self["tag_serial_number"], 2)
               \o PackInt(crc_ccitt(crc_bytes), 2) \o PackInt(Len(crc_bytes), 2)
               \o PackInt(self["tag_location"], 4)
        csum == _compute_csum(rec)
    IN Return(self, [rec EXCEPT ![5] = csum])

UDFTag_new(self, tag_ident, tag_serial) ==
    IF self["_initialized"] THEN Raise(self, InternalError, "UDF Tag already initialized")
    ELSE Return(Set(Set(Set(Set(Set(self,
                "tag_ident", tag_ident),
                "desc_version", 2),
                "tag_serial_number", tag_serial),
                "tag_location", 0),
                "_initialized", TRUE), None)

(***************************************************************************)
(* UDFTimestamp                                                            *)
(***************************************************************************)

\* twos_comp that takes one too few from a value with the sign bit set.
twos_comp_ones(val, bits) == IF BitSet(val, bits - 1) THEN val - (2 ^ bits) + 1 ELSE val

\* twos_comp(val, bits), the local function of UDFTimestamp.parse.
twos_comp(val, bits) == IF BitSet(val, bits - 1) THEN val - (2 ^ bits) ELSE val

UDFTimestamp_parse(self, data) ==
    IF self["_initialized"] THEN Raise(self, InternalError, "UDF Timestamp already initialized")
    ELSE IF Len(data) < 12 THEN Raise(self, StructError, "unpack_from requires a buffer of at least 12 bytes")
    ELSE
    LET tz == UnpackFrom(data, 0, 1)
        timetype == UnpackFrom(data, 1, 1)
        year == UnpackFrom(data, 2, 2)
        month == UnpackFrom(data, 4, 1)
        day == UnpackFrom(data, 5, 1)
        hour == UnpackFrom(data, 6, 1)
        minute == UnpackFrom(data, 7, 1)
        second == UnpackFrom(data, 8, 1)
        self_tz == twos_comp(((timetype % 16) * 256) + tz, 12)
    IN End(Assign(Check(Check(Check(Check(Check(Check(Check(
           Begin(Set(Set(Set(Set(Set(Set(Set(Set(Set(Set(Set(self,
                 "year", year),
                 "month", month),
                 "day", day),
                 "hour", hour),
                 "minute", minute),
                 "second", second),
                 "centiseconds", UnpackFrom(data, 9, 1)),
                 "hundreds_microseconds", UnpackFrom(data, 10, 1)),
                 "microseconds", UnpackFrom(data, 11, 1)),
                 "timetype", timetype \div 16),
                 "tz", self_tz)),
           (self_tz < -1440 \/ self_tz > 1440) /\ self_tz # -2047, InvalidISO, "Invalid UDF timezone"),
           year < 1 \/ year > 9999, InvalidISO, "Invalid UDF year"),
           month < 1 \/ month > 12, InvalidISO, "Invalid UDF month"),
           day < 1 \/ day > 31, InvalidISO, "Invalid UDF day"),
           hour < 0 \/ hour > 23, InvalidISO, "Invalid UDF hour"),
           minute < 0 \/ minute > 59, InvalidISO, "Invalid UDF minute"),
           second < 0 \/ second > 59, InvalidISO, "Invalid UDF second"),
           "_initialized", TRUE), None)

\* UDFTimestamp.record without the high bits of the timezone.
UDFTimestamp_record_low_tz(self) ==
    IF ~self["_initialized"] THEN Raise(self, InternalError, "UDF Timestamp not initialized")
    ELSE
    LET tmp == self["tz"] % 65536
        newtz == tmp % 256
        newtimetype == self["timetype"] * 16
    IN Return(self,
              PackInt(newtz, 1) \o PackInt(newtimetype, 1) \o PackInt(self["year"], 2)
              \o PackInt(self["month"], 1) \o PackInt(self["day"], 1)
              \o PackInt(self["hour"], 1) \o PackInt(self["minute"], 1)
              \o PackInt(self["second"], 1) \o PackInt(self["centiseconds"], 1)
              \o PackInt(self["hundreds_microseconds"], 1)
              \o PackInt(self["microseconds"], 1))

UDFTimestamp_record(self) ==
    IF ~self["_initialized"] THEN Raise(self, InternalError, "UDF Timestamp not initialized")
    ELSE
    LET tmp == self["tz"] % 65536                 \* ((1 << 16) - 1) & self.tz
        newtz == tmp % 256
        newtimetype == ((tmp \div 256) % 16) + (self["timetype"] * 16)
    IN Return(self,
              PackInt(newtz, 1) \o PackInt(newtimetype, 1) \o PackInt(self["year"], 2)
              \o PackInt(self["month"], 1) \o PackInt(self["day"], 1)
              \o PackInt(self["hour"], 1) \o PackInt(self["minute"], 1)
              \o PackInt(self["second"], 1) \o PackInt(self["centiseconds"], 1)
              \o PackInt(self["hundreds_microseconds"], 1)
              \o PackInt(self["microseconds"], 1))

\* UDFTimestamp.new without the check that the object is not yet initialized.
UDFTimestamp_new_again(self, clock) ==
    Return(Set(Set(Set(Set(Set(Set(Set(Set(Set(Set(Set(Set(self,
           "tz", clock.tz),
           "timetype", 1),
           "year", clock.tm_year),
           "month", clock.tm_mon),
           "day", clock.tm_mon),
           "hour", clock.tm_hour),
           "minute", clock.tm_min),
           "second", clock.tm_sec),
           "centiseconds", 0),
           "hundreds_microseconds", 0),
           "microseconds", 0),
           "_initialized", TRUE), None)

\* clock: what time.time(), time.localtime() and utils.gmtoffset_from_tm() give:
\* [tz, tm_year, tm_mon, tm_mday, tm_hour, tm_min, tm_sec].
UDFTimestamp_new(self, clock) ==
    IF self["_initialized"] THEN Raise(self, InternalError, "UDF Timestamp already initialized")
    ELSE Return(Set(Set(Set(Set(Set(Set(Set(Set(Set(Set(Set(Set(self,
                "tz", clock.tz),
                "timetype", 1),
                "year", clock.tm_year),
                "month", clock.tm_mon),
                "day", clock.tm_mon),
                "hour", clock.tm_hour),
                "minute", clock.tm_min),
                "second", clock.tm_sec),
                "centiseconds", 0),
                "hundreds_microseconds", 0),
                "microseconds", 0),
                "_initialized", TRUE), None)

(***************************************************************************)
(* UDFEntityID                                                             *)
(***************************************************************************)

UDFEntityID_parse(self, data) ==
    IF self["_initialized"] THEN Raise(self, InternalError, "UDF Entity ID already initialized")
    ELSE IF Len(data) < 32 THEN Raise(self, StructError, "unpack_from requires a buffer of at least 32 bytes")
    ELSE Return(Set(Set(Set(Set(self,
                "flags", UnpackFrom(data, 0, 1)),
                "identifier", Slice(data, 1, 24)),
                "suffix", Slice(data, 24, 32)),
                "_initialized", TRUE), None)

UDFEntityID_record(self) ==
    IF ~self["_initialized"] THEN Raise(self, InternalError, "UDF Entity ID not initialized")
    ELSE Return(self, PackInt(self["flags"], 1) \o PackStr(self["identifier"], 23)
                      \o PackStr(self["suffix"], 8))

\* An optional bytes argument: {} is None, {b} is the bytes b.
NoBytes == {}
Bytes(b) == {b}
TheBytes(x) == CHOOSE b \in x : TRUE

UDFEntityID_new(self, flags, identifier, suffix) ==
    IF self["_initialized"] THEN Raise(self, InternalError, "UDF Entity ID already initialized")
    ELSE
    LET s1 == Set(self, "flags", flags)
        s2 == Set(s1, "identifier",
                  IF identifier = NoBytes THEN Zeros(23)
                  ELSE FormatPad(TheBytes(identifier), 23))
        s3 == Set(s2, "suffix",
                  IF suffix = NoBytes THEN Zeros(8)
                  ELSE FormatPad(TheBytes(suffix), 8))
    IN IF identifier # NoBytes /\ Len(TheBytes(identifier)) > 23
            THEN Raise(s1, InvalidInput, "UDF Entity ID identifer must be less than 23 characters")
       ELSE IF suffix # NoBytes /\ Len(TheBytes(suffix)) > 8
            THEN Raise(s2, InvalidInput, "UDF Entity ID suffix must be less than 8 characters")
       ELSE Return(Set(s3, "_initialized", TRUE), None)

(***************************************************************************)
(* UDFImplementationUseVolumeDescriptorImplementationUse                   *)
(***************************************************************************)

UDFImplementationUseVolumeDescriptorImplementationUse_parse(self, data) ==
    IF self["_initialized"]
    THEN Raise(self, InternalError, "UDF Implementation Use Volume Descriptor Implementation Use field already initialized")
    ELSE IF Len(data) < 460 THEN Raise(self, StructError, "unpack_from requires a buffer of at least 460 bytes")
    ELSE End(Assign(Sub(
             Begin(Set(Set(Set(Set(Set(Set(self,
                   "charset", Slice(data, 0, 64)),
                   "log_vol_ident", Slice(data, 64, 192)),
                   "lv_info1", Slice(data, 192, 228)),
                   "lv_info2", Slice(data, 228, 264)),
                   "lv_info3", Slice(data, 264, 300)),
                   "impl_use", Slice(data, 332, 460))),
             "impl_ident", UDFEntityID_parse(NewObject, Slice(data, 300, 332))),
             "_initialized", TRUE), None)

UDFImplementationUseVolumeDescriptorImplementationUse_record(self) ==
    IF ~self["_initialized"]
    THEN Raise(self, InternalError, "UDF Implementation Use Volume Descriptor Implementation Use field not initialized")
    ELSE Return(self,
                PackStr(self["charset"], 64) \o PackStr(self["log_vol_ident"], 128)
                \o PackStr(self["lv_info1"], 36) \o PackStr(self["lv_info2"], 36)
                \o PackStr(self["lv_info3"], 36)
                \o PackStr(UDFEntityID_record(self["impl_ident"]).ret, 32)
                \o PackStr(self["impl_use"], 128))

UDFImplementationUseVolumeDescriptorImplementationUse_new(self) ==
    IF self["_initialized"]
    THEN Raise(self, InternalError, "UDF Implementation Use Volume Descriptor Implementation Use field already initialized")
    ELSE
    LET r == UDFEntityID_new(NewObject, 0, Bytes(Ascii.UDFLVInfo), Bytes(<<2, 1>>))
    IN Return(Set(Set(Set(Set(Set(Set(Set(Set(self,
                "charset", FormatPad(Ascii.OSTAUnicode, 64)),
                "log_vol_ident", FormatPad(Ascii.CDROM, 127) \o <<6>>),
                "lv_info1", Zeros(36)),
                "lv_info2", Zeros(36)),
                "lv_info3", Zeros(36)),
                "impl_ident", r.obj),
                "impl_use", Zeros(128)),
                "_initialized", TRUE), None)

(***************************************************************************)
(* UDFPartitionHeaderDescriptor                                            *)
(***************************************************************************)

\* The message of the first of the ten length and position fields that is not 0.
PartitionHeaderFields ==
    <<"unallocated table length", "unallocated table position",
      "unallocated bitmap length", "unallocated bitmap position",
      "partition integrity length", "partition integrity position",
      "freed table length", "freed table position",
      "freed bitmap length", "freed bitmap position">>

UDFPartitionHeaderDescriptor_parse(self, data) ==
    IF self["_initialized"] THEN Raise(self, InternalError, "UDF Partition Header Descriptor already initialized")
    ELSE IF Len(data) < 128 THEN Raise(self, StructError, "unpack_from requires a buffer of at least 128 bytes")
    ELSE
    LET bad == {i \in 1..10 : UnpackFrom(data, 4 * (i - 1), 4) # 0}
    IN IF bad # {}
       THEN Raise(self, InvalidISO,
                  PartitionHeaderFields[CHOOSE i \in bad : \A j \in bad : i <= j])
       ELSE Return(Set(self, "_initialized", TRUE), None)

UDFPartitionHeaderDescriptor_record(self) ==
    IF ~self["_initialized"] THEN Raise(self, InternalError, "UDF Partition Header Descriptor not initialized")
    ELSE Return(self, Zeros(128))

UDFPartitionHeaderDescriptor_new(self) ==
    IF self["_initialized"] THEN Raise(self, InternalError, "UDF Partition Header Descriptor already initialized")
    ELSE Return(Set(self, "_initialized", TRUE), None)

(***************************************************************************)
(* UDFPartitionMap                                                         *)
(***************************************************************************)

UDFPartitionMap_parse(self, data) ==
    IF self["_initialized"] THEN Raise(self, InternalError, "UDF Partition Map already initialized")
    ELSE IF Len(data) < 6 THEN Raise(self, StructError, "unpack_from requires a buffer of at least 6 bytes")
    ELSE
    LET map_type == UnpackFrom(data, 0, 1)
        map_length == UnpackFrom(data, 1, 1)
        vol_seqnum == UnpackFrom(data, 2, 2)
    IN End(Assign(Check(Check(Check(
           Begin(Set(self, "part_num", UnpackFrom(data, 4, 2))),
           map_type # 1, InvalidISO, "UDF Partition Map type is not 1"),
           map_length # 6, InvalidISO, "UDF Partition Map length is not 6"),
           vol_seqnum # 1, InvalidISO, "UDF Partition Volume Sequence Number is not 1"),
           "_initialized", TRUE), None)

UDFPartitionMap_record(self) ==
    IF ~self["_initialized"] THEN Raise(self, InternalError, "UDF Partition Map not initialized")
    ELSE Return(self, PackInt(1, 1) \o PackInt(6, 1) \o PackInt(1, 2) \o PackInt(self["part_num"], 2))

UDFPartitionMap_new(self) ==
    IF self["_initialized"] THEN Raise(self, InternalError, "UDF Partition Map already initialized")
    ELSE Return(Set(Set(self, "part_num", 0), "_initialized", TRUE), None)

(***************************************************************************)
(* UDFLongAD                                                               *)
(***************************************************************************)

\* UDFLongAD.parse that takes an initialized object too.
UDFLongAD_parse_again(self, data) ==
    IF Len(data) < 16 THEN Raise(self, StructError, "unpack_from requires a buffer of at least 16 bytes")
    ELSE Return(Set(Set(Set(Set(Set(self,
                "extent_length", UnpackFrom(data, 0, 4)),
                "log_block_num", UnpackFrom(data, 4, 4)),
                "part_ref_num", UnpackFrom(data, 8, 2)),
                "impl_use", Slice(data, 10, 16)),
                "_initialized", TRUE), None)

UDFLongAD_parse(self, data) ==
    IF self["_initialized"] THEN Raise(self, InternalError, "UDF Long Allocation descriptor already initialized")
    ELSE IF Len(data) < 16 THEN Raise(self, StructError, "unpack_from requires a buffer of at least 16 bytes")
    ELSE Return(Set(Set(Set(Set(Set(self,
                "extent_length", UnpackFrom(data, 0, 4)),
                "log_block_num", UnpackFrom(data, 4, 4)),
                "part_ref_num", UnpackFrom(data, 8, 2)),
                "impl_use", Slice(data, 10, 16)),
                "_initialized", TRUE), None)

UDFLongAD_record(self) ==
    IF ~self["_initialized"] THEN Raise(self, InternalError, "UDF Long AD not initialized")
    ELSE Return(self, PackInt(self["extent_length"], 4) \o PackInt(self["log_block_num"], 4)
                      \o PackInt(self["part_ref_num"], 2) \o PackStr(self["impl_use"], 6))

UDFLongAD_new(self, length, blocknum) ==
    IF self["_initialized"] THEN Raise(self, InternalError, "UDF Long AD already initialized")
    ELSE Return(Set(Set(Set(Set(Set(self,
                "extent_length", length),
                "log_block_num", blocknum),
                "part_ref_num", 0),
                "impl_use", Zeros(6)),
                "_initialized", TRUE), None)

(***************************************************************************)
(* UDFLogicalVolumeHeaderDescriptor                                        *)
(***************************************************************************)

UDFLogicalVolumeHeaderDescriptor_parse(self, data) ==
    IF self["_initialized"] THEN Raise(self, InternalError, "UDF Logical Volume Header Descriptor already initialized")
    ELSE IF Len(data) < 32 THEN Raise(self, StructError, "unpack_from requires a buffer of at least 32 bytes")
    ELSE Return(Set(Set(self, "unique_id", UnpackFrom(data, 0, 8)), "_initialized", TRUE), None)

UDFLogicalVolumeHeaderDescriptor_record(self) ==
    IF ~self["_initialized"] THEN Raise(self, InternalError, "UDF Logical Volume Header Descriptor not initialized")
    ELSE Return(self, PackInt(self["unique_id"], 8) \o Zeros(24))

UDFLogicalVolumeHeaderDescriptor_new(self) ==
    IF self["_initialized"] THEN Raise(self, InternalError, "UDF Logical Volume Header Descriptor already initialized")
    ELSE Return(Set(Set(self, "unique_id", 261), "_initialized", TRUE), None)

(***************************************************************************)
(* UDFLogicalVolumeImplementationUse                                       *)
(***************************************************************************)

UDFLogicalVolumeImplementationUse_parse(self, data) ==
    IF self["_initialized"] THEN Raise(self, InternalError, "UDF Logical Volume Implementation Use already initialized")
    ELSE IF Len(data) < 46 THEN Raise(self, StructError, "unpack_from requires a buffer of at least 46 bytes")
    ELSE End(Assign(Assign(Sub(
             Begin(Set(Set(Set(Set(Set(self,
                   "num_files", UnpackFrom(data, 32, 4)),
                   "num_dirs", UnpackFrom(data, 36, 4)),
                   "min_udf_read_revision", UnpackFrom(data, 40, 2)),
                   "min_udf_write_revision", UnpackFrom(data, 42, 2)),
                   "max_udf_write_revision", UnpackFrom(data, 44, 2))),
             "impl_id", UDFEntityID_parse(NewObject, Slice(data, 0, 32))),
             "impl_use", SliceFrom(data, 46)),
             "_initialized", TRUE), None)

UDFLogicalVolumeImplementationUse_record(self) ==
    IF ~self["_initialized"] THEN Raise(self, InternalError, "UDF Logical Volume Implementation Use not initialized")
    ELSE Return(self,
                PackStr(UDFEntityID_record(self["impl_id"]).ret, 32)
                \o PackInt(self["num_files"], 4) \o PackInt(self["num_dirs"], 4)
                \o PackInt(self["min_udf_read_revision"], 2)
                \o PackInt(self["min_udf_write_revision"], 2)
                \o PackInt(self["max_udf_write_revision"], 2)
                \o self["impl_use"])

UDFLogicalVolumeImplementationUse_new(self) ==
    IF self["_initialized"] THEN Raise(self, InternalError, "UDF Logical Volume Implementation Use already initialized")
    ELSE
    LET r == UDFEntityID_new(NewObject, 0, NoBytes, NoBytes)
    IN Return(Set(Set(Set(Set(Set(Set(Set(Set(self,
                "impl_id", r.obj),
                "num_files", 0),
                "num_dirs", 1),
                "min_udf_read_revision", 258),
                "min_udf_write_revision", 258),
                "max_udf_write_revision", 258),
                "impl_use", Zeros(378)),
                "_initialized", TRUE), None)

(***************************************************************************)
(* UDFICBTag                                                               *)
(***************************************************************************)

UDFICBTag_parse(self, data) ==
    IF self["_initialized"] THEN Raise(self, InternalError, "UDF ICB Tag already initialized")
    ELSE IF Len(data) < 20 THEN Raise(self, StructError, "unpack_from requires a buffer of at least 20 bytes")
    ELSE
    LET reserved == UnpackFrom(data, 10, 1)
        strategy_type == UnpackFrom(data, 4, 2)
    IN End(Assign(Check(Check(
           Begin(Set(Set(Set(Set(Set(Set(Set(Set(self,
                 "prior_num_direct_entries", UnpackFrom(data, 0, 4)),
                 "strategy_type", strategy_type),
                 "strategy_param", UnpackFrom(data, 6, 2)),
                 "max_num_entries", UnpackFrom(data, 8, 2)),
                 "file_type", UnpackFrom(data, 11, 1)),
                 "parent_icb_log_block_num", UnpackFrom(data, 12, 4)),
                 "parent_icb_part_ref_num", UnpackFrom(data, 16, 2)),
                 "flags", UnpackFrom(data, 18, 2))),
           strategy_type \notin {4, 4096}, InvalidISO, "UDF ICB Tag invalid strategy type"),
           reserved # 0, InvalidISO, "UDF ICB Tag reserved not 0"),
           "_initialized", TRUE), None)

UDFICBTag_record(self) ==
    IF ~self["_initialized"] THEN Raise(self, InternalError, "UDF ICB Tag not initialized")
    ELSE Return(self,
                PackInt(self["prior_num_direct_entries"], 4) \o PackInt(self["strategy_type"], 2)
                \o PackInt(self["strategy_param"], 2) \o PackInt(self["max_num_entries"], 2)
                \o PackInt(0, 1) \o PackInt(self["file_type"], 1)
                \o PackInt(self["parent_icb_log_block_num"], 4)
                \o PackInt(self["parent_icb_part_ref_num"], 2) \o PackInt(self["flags"], 2))

UDFICBTag_new(self) ==
    IF self["_initialized"] THEN Raise(self, InternalError, "UDF ICB Tag already initialized")
    ELSE Return(Set(Set(Set(Set(Set(Set(Set(Set(Set(self,
                "prior_num_direct_entries", 0),
                "strategy_type", 4),
                "strategy_param", 0),
                "max_num_entries", 1),
                "file_type", 4),
                "parent_icb_log_block_num", 0),
                "parent_icb_part_ref_num", 0),
                "flags", 560),
                "_initialized", TRUE), None)

(***************************************************************************)
(* What the descriptor classes share                                       *)
(***************************************************************************)

\* The end of every descriptor's parse:
\*   self.orig_extent_loc = extent; self.new_extent_loc = None; self._initialized = True
ParseDone(p, extent) ==
    End(Assign(Assign(Assign(p, "orig_extent_loc", extent), "new_extent_loc", None),
               "_initialized", TRUE), None)

\* extent_location() that reports the extent the descriptor was read from,
\* whatever set_location was given.
extent_location_orig(self) ==
    IF ~self["_initialized"] THEN Raise(self, InternalError, "not yet initialized")
    ELSE IF "orig_extent_loc" \notin DOMAIN self THEN Raise(self, AttributeError, "orig_extent_loc")
    ELSE Return(self, self["orig_extent_loc"])

\* extent_location(), the same code in all fourteen descriptor classes.  Reading
\* a slot that was never assigned raises AttributeError.
extent_location(self) ==
    IF ~self["_initialized"] THEN Raise(self, InternalError, "not yet initialized")
    ELSE IF "new_extent_loc" \notin DOMAIN self
         THEN Raise(self, AttributeError, "new_extent_loc")
    ELSE IF self["new_extent_loc"] = None
         THEN (IF "orig_extent_loc" \notin DOMAIN self
               THEN Raise(self, AttributeError, "orig_extent_loc")
               ELSE Return(self, self["orig_extent_loc"]))
    ELSE Return(self, self["new_extent_loc"])

\* desc_tag.tag_location = v
SetTagLocation(self, slot, v) == Set(self, slot, Set(self[slot], "tag_location", v))

\* set_location that numbers the tag with the location as well.
set_location_serial(self, new_location) ==
    IF ~self["_initialized"] THEN Raise(self, InternalError, "not initialized")
    ELSE Return(Set(SetTagLocation(Set(self, "new_extent_loc", new_location),
                                   "desc_tag", new_location),
                    "desc_tag", Set(Set(self["desc_tag"], "tag_location", new_location),
                                    "tag_serial_number", new_location + 1)), None)

\* set_location(new_location) of the Primary, Implementation Use, Partition,
\* Logical Volume, Unallocated Space and Logical Volume Integrity descriptors.
set_location(self, new_location) ==
    IF ~self["_initialized"] THEN Raise(self, InternalError, "not initialized")
    ELSE Return(SetTagLocation(Set(self, "new_extent_loc", new_location),
                               "desc_tag", new_location), None)

(***************************************************************************)
(* BEAVolumeStructure, NSRVolumeStructure, TEAVolumeStructure              *)
(***************************************************************************)

\* The three classes are the same code but for the identifier.
VolumeStructure_parse(self, data, extent, ident) ==
    IF self["_initialized"] THEN Raise(self, InternalError, "Volume Structure already initialized")
    ELSE IF Len(data) < 2048 THEN Raise(self, StructError, "unpack_from requires a buffer of at least 2048 bytes")
    ELSE
    LET structure_type == UnpackFrom(data, 0, 1)
        standard_ident == Slice(data, 1, 6)
        structure_version == UnpackFrom(data, 6, 1)
    IN ParseDone(Check(Check(Check(Begin(self),
           structure_type # 0, InvalidISO, "Invalid structure type"),
           standard_ident # ident, InvalidISO, "Invalid standard identifier"),
           structure_version # 1, InvalidISO, "Invalid structure version"),
           extent)

VolumeStructure_record(self, ident) ==
    IF ~self["_initialized"] THEN Raise(self, InternalError, "Volume Structure not initialized")
    ELSE Return(self, PackInt(0, 1) \o PackStr(ident, 5) \o PackInt(1, 1) \o PackStr(Zeros(2041), 2041))

VolumeStructure_new(self) ==
    IF self["_initialized"] THEN Raise(self, InternalError, "Volume Structure already initialized")
    ELSE Return(Set(self, "_initialized", TRUE), None)

BEAVolumeStructure_parse(self, data, extent) == VolumeStructure_parse(self, data, extent, Ascii.BEA01)
BEAVolumeStructure_record(self) == VolumeStructure_record(self, Ascii.BEA01)
BEAVolumeStructure_new(self) == VolumeStructure_new(self)

NSRVolumeStructure_parse(self, data, extent) == VolumeStructure_parse(self, data, extent, Ascii.NSR02)
NSRVolumeStructure_record(self) == VolumeStructure_record(self, Ascii.NSR02)
NSRVolumeStructure_new(self) == VolumeStructure_new(self)

TEAVolumeStructure_parse(self, data, extent) == VolumeStructure_parse(self, data, extent, Ascii.TEA01)
TEAVolumeStructure_record(self) == VolumeStructure_record(self, Ascii.TEA01)
TEAVolumeStructure_new(self) == VolumeStructure_new(self)

(***************************************************************************)
(* UDFAnchorVolumeStructure                                                *)
(***************************************************************************)

UDFAnchorVolumeStructure_parse(self, data, extent) ==
    IF self["_initialized"] THEN Raise(self, InternalError, "Anchor Volume Structure already initialized")
    ELSE IF Len(data) < 32 THEN Raise(self, StructError, "unpack_from requires a buffer of at least 32 bytes")
    ELSE ParseDone(CheckAttr(Sub(
             Begin(Set(Set(Set(Set(self,
                   "main_vd_length", UnpackFrom(data, 16, 4)),
                   "main_vd_extent", UnpackFrom(data, 20, 4)),
                   "reserve_vd_length", UnpackFrom(data, 24, 4)),
                   "reserve_vd_extent", UnpackFrom(data, 28, 4))),
             "udf_tag", UDFTag_parse(NewObject, Slice(data, 0, 16), extent, SliceFrom(data, 16))),
             "udf_tag", "tag_ident", 2, "Anchor Tag identifier not 2"),
             extent)

UDFAnchorVolumeStructure_record(self) ==
    IF ~self["_initialized"] THEN Raise(self, InternalError, "UDF Anchor Volume Descriptor not initialized")
    ELSE
    LET rec == PackInt(self["main_vd_length"], 4) \o PackInt(self["main_vd_extent"], 4)
               \o PackInt(self["reserve_vd_length"], 4) \o PackInt(self["reserve_vd_extent"], 4)
               \o Zeros(480)
    IN Return(self, UDFTag_record(self["udf_tag"], rec).ret \o rec)

UDFAnchorVolumeStructure_new(self) ==
    IF self["_initialized"] THEN Raise(self, InternalError, "UDF Anchor Volume Structure already initialized")
    ELSE Return(Set(Set(Set(Set(Set(Set(self,
                "udf_tag", UDFTag_new(NewObject, 2, 0).obj),
                "main_vd_length", 32768),
                "main_vd_extent", 0),
                "reserve_vd_length", 32768),
                "reserve_vd_extent", 0),
                "_initialized", TRUE), None)

\* UDFAnchorVolumeStructure.set_location that stores main_vd_extent in both extents.
UDFAnchorVolumeStructure_set_location_main(self, new_location, main_vd_extent, reserve_vd_extent) ==
    IF ~self["_initialized"] THEN Raise(self, InternalError, "UDF Anchor Volume Structure not yet initialized")
    ELSE Return(Set(Set(SetTagLocation(Set(self, "new_extent_loc", new_location),
                                       "udf_tag", new_location),
                        "main_vd_extent", main_vd_extent),
                    "reserve_vd_extent", main_vd_extent), None)

UDFAnchorVolumeStructure_set_location(self, new_location, main_vd_extent, reserve_vd_extent) ==
    IF ~self["_initialized"] THEN Raise(self, InternalError, "UDF Anchor Volume Structure not yet initialized")
    ELSE Return(Set(Set(SetTagLocation(Set(self, "new_extent_loc", new_location),
                                       "udf_tag", new_location),
                        "main_vd_extent", main_vd_extent),
                    "reserve_vd_extent", reserve_vd_extent), None)

(***************************************************************************)
(* UDFPrimaryVolumeDescriptor                                              *)
(***************************************************************************)

\* UDFPrimaryVolumeDescriptor.parse without the check of max_character_set_list.
UDFPrimaryVolumeDescriptor_parse_any_charset(self, data, extent) ==
    IF self["_initialized"] THEN Raise(self, InternalError, "UDF Primary Volume Descriptor already initialized")
    ELSE IF Len(data) < 512 THEN Raise(self, StructError, "unpack_from requires a buffer of at least 512 bytes")
    ELSE
    LET vol_seqnum == UnpackFrom(data, 56, 2)
        max_vol_seqnum == UnpackFrom(data, 58, 2)
        interchange_level == UnpackFrom(data, 60, 2)
        max_interchange_level == UnpackFrom(data, 62, 2)
        character_set_list == UnpackFrom(data, 64, 4)
        max_character_set_list == UnpackFrom(data, 68, 4)
        flags == UnpackFrom(data, 488, 2)
        reserved == Slice(data, 490, 512)
    IN ParseDone(Sub(Sub(Sub(Check(Check(CheckAttr(Sub(
           Begin(Set(Set(Set(Set(Set(Set(Set(Set(Set(Set(Set(Set(self,
                 "vol_desc_seqnum", UnpackFrom(data, 16, 4)),
                 "desc_num", UnpackFrom(data, 20, 4)),
                 "volume_identifier", Slice(data, 24, 56)),
                 "vol_set_ident", Slice(data, 72, 200)),
                 "desc_char_set", Slice(data, 200, 264)),
                 "explanatory_char_set", Slice(data, 264, 328)),
                 "vol_abstract_length", UnpackFrom(data, 328, 4)),
                 "vol_abstract_extent", UnpackFrom(data, 332, 4)),
                 "vol_copyright_length", UnpackFrom(data, 336, 4)),
                 "vol_copyright_extent", UnpackFrom(data, 340, 4)),
                 "implementation_use", Slice(data, 420, 484)),
                 "predecessor_vol_desc_location", UnpackFrom(data, 484, 4))),
           "desc_tag", UDFTag_parse(NewObject, Slice(data, 0, 16), extent, SliceFrom(data, 16))),
           "desc_tag", "tag_ident", 1, "UDF Primary Descriptor Tag identifier not 1"),
           vol_seqnum # 1 \/ max_vol_seqnum # 1 \/ interchange_level # 2
               \/ max_interchange_level # 2 \/ character_set_list # 1
               \/ flags # 0,
           InvalidISO, "Only DVD Read-Only disks are supported"),
           reserved # Zeros(22), InvalidISO, "UDF Primary Volume Descriptor reserved data not 0"),
           "recording_date", UDFTimestamp_parse(NewObject, Slice(data, 376, 388))),
           "app_ident", UDFEntityID_parse(NewObject, Slice(data, 344, 376))),
           "impl_ident", UDFEntityID_parse(NewObject, Slice(data, 388, 420))),
           extent)

UDFPrimaryVolumeDescriptor_parse(self, data, extent) ==
    IF self["_initialized"] THEN Raise(self, InternalError, "UDF Primary Volume Descriptor already initialized")
    ELSE IF Len(data) < 512 THEN Raise(self, StructError, "unpack_from requires a buffer of at least 512 bytes")
    ELSE
    LET vol_seqnum == UnpackFrom(data, 56, 2)
        max_vol_seqnum == UnpackFrom(data, 58, 2)
        interchange_level == UnpackFrom(data, 60, 2)
        max_interchange_level == UnpackFrom(data, 62, 2)
        character_set_list == UnpackFrom(data, 64, 4)
        max_character_set_list == UnpackFrom(data, 68, 4)
        flags == UnpackFrom(data, 488, 2)
        reserved == Slice(data, 490, 512)
    IN ParseDone(Sub(Sub(Sub(Check(Check(CheckAttr(Sub(
           Begin(Set(Set(Set(Set(Set(Set(Set(Set(Set(Set(Set(Set(self,
                 "vol_desc_seqnum", UnpackFrom(data, 16, 4)),
                 "desc_num", UnpackFrom(data, 20, 4)),
                 "volume_identifier", Slice(data, 24, 56)),
                 "vol_set_ident", Slice(data, 72, 200)),
                 "desc_char_set", Slice(data, 200, 264)),
                 "explanatory_char_set", Slice(data, 264, 328)),
                 "vol_abstract_length", UnpackFrom(data, 328, 4)),
                 "vol_abstract_extent", UnpackFrom(data, 332, 4)),
                 "vol_copyright_length", UnpackFrom(data, 336, 4)),
                 "vol_copyright_extent", UnpackFrom(data, 340, 4)),
                 "implementation_use", Slice(data, 420, 484)),
                 "predecessor_vol_desc_location", UnpackFrom(data, 484, 4))),
           "desc_tag", UDFTag_parse(NewObject, Slice(data, 0, 16), extent, SliceFrom(data, 16))),
           "desc_tag", "tag_ident", 1, "UDF Primary Descriptor Tag identifier not 1"),
           vol_seqnum # 1 \/ max_vol_seqnum # 1 \/ interchange_level # 2
               \/ max_interchange_level # 2 \/ character_set_list # 1
               \/ max_character_set_list # 1 \/ flags # 0,
           InvalidISO, "Only DVD Read-Only disks are supported"),
           reserved # Zeros(22), InvalidISO, "UDF Primary Volume Descriptor reserved data not 0"),
           "recording_date", UDFTimestamp_parse(NewObject, Slice(data, 376, 388))),
           "app_ident", UDFEntityID_parse(NewObject, Slice(data, 344, 376))),
           "impl_ident", UDFEntityID_parse(NewObject, Slice(data, 388, 420))),
           extent)

UDFPrimaryVolumeDescriptor_record(self) ==
    IF ~self["_initialized"] THEN Raise(self, InternalError, "UDF Primary Volume Descriptor not initialized")
    ELSE
    LET rec == PackInt(self["vol_desc_seqnum"], 4) \o PackInt(self["desc_num"], 4)
               \o PackStr(self["volume_identifier"], 32)
               \o PackInt(1, 2) \o PackInt(1, 2) \o PackInt(2, 2) \o PackInt(2, 2)
               \o PackInt(1, 4) \o PackInt(1, 4)
               \o PackStr(self["vol_set_ident"], 128)
               \o PackStr(self["desc_char_set"], 64) \o PackStr(self["explanatory_char_set"], 64)
               \o PackInt(self["vol_abstract_length"], 4) \o PackInt(self["vol_abstract_extent"], 4)
               \o PackInt(self["vol_copyright_length"], 4) \o PackInt(self["vol_copyright_extent"], 4)
               \o PackStr(UDFEntityID_record(self["app_ident"]).ret, 32)
               \o PackStr(UDFTimestamp_record(self["recording_date"]).ret, 12)
               \o PackStr(UDFEntityID_record(self["impl_ident"]).ret, 32)
               \o PackStr(self["implementation_use"], 64)
               \o PackInt(self["predecessor_vol_desc_location"], 4)
               \o PackInt(0, 2) \o PackStr(Zeros(22), 22)
    IN Return(self, UDFTag_record(self["desc_tag"], rec).ret \o rec)

\* random64: what random.getrandbits(64) gives, as its base-256 digits.
UDFPrimaryVolumeDescriptor_new(self, clock, random64) ==
    IF self["_initialized"] THEN Raise(self, InternalError, "UDF Primary Volume Descriptor already initialized")
    ELSE Return(Set(Set(Set(Set(Set(Set(Set(Set(Set(Set(Set(Set(Set(Set(Set(Set(Set(self,
                "desc_tag", UDFTag_new(NewObject, 1, 0).obj),
                "vol_desc_seqnum", 0),
                "desc_num", 0),
                "volume_identifier", FormatPad(Ascii.CDROM, 31) \o <<6>>),
                "vol_set_ident", <<8>> \o PackWide(random64, 8)),
                "desc_char_set", FormatPad(Ascii.OSTAUnicode, 64)),
                "explanatory_char_set", FormatPad(Ascii.OSTAUnicode, 64)),
                "vol_abstract_length", 0),
                "vol_abstract_extent", 0),
                "vol_copyright_length", 0),
                "vol_copyright_extent", 0),
                "app_ident", UDFEntityID_new(NewObject, 0, NoBytes, NoBytes).obj),
                "recording_date", UDFTimestamp_new(NewObject, clock).obj),
                "impl_ident", UDFEntityID_new(NewObject, 0, Bytes(Ascii.genisoimage), NoBytes).obj),
                "implementation_use", Zeros(64)),
                "predecessor_vol_desc_location", 0),
                "_initialized", TRUE), None)

(***************************************************************************)
(* UDFImplementationUseVolumeDescriptor                                    *)
(***************************************************************************)

UDFImplementationUseVolumeDescriptor_parse(self, data, extent) ==
    IF self["_initialized"] THEN Raise(self, InternalError, "UDF Implementation Use Volume Descriptor already initialized")
    ELSE IF Len(data) < 512 THEN Raise(self, StructError, "unpack_from requires a buffer of at least 512 bytes")
    ELSE ParseDone(Sub(CheckPrefix(Sub(CheckAttr(Sub(
             Begin(Set(self, "vol_desc_seqnum", UnpackFrom(data, 16, 4))),
             "desc_tag", UDFTag_parse(NewObject, Slice(data, 0, 16), extent, SliceFrom(data, 16))),
             "desc_tag", "tag_ident", 4, "Implementation Use Descriptor Tag identifier not 4"),
             "impl_ident", UDFEntityID_parse(NewObject, Slice(data, 20, 52))),
             "impl_ident", "identifier", 12, Ascii.UDFLVInfo,
             "Implementation Use Identifier not '*UDF LV Info'"),
             "impl_use",
             UDFImplementationUseVolumeDescriptorImplementationUse_parse(NewObject, Slice(data, 52, 512))),
             extent)

UDFImplementationUseVolumeDescriptor_record(self) ==
    IF ~self["_initialized"] THEN Raise(self, InternalError, "UDF Implementation Use Volume Descriptor not initialized")
    ELSE
    LET rec == PackInt(self["vol_desc_seqnum"], 4)
               \o PackStr(UDFEntityID_record(self["impl_ident"]).ret, 32)
               \o PackStr(UDFImplementationUseVolumeDescriptorImplementationUse_record(self["impl_use"]).ret, 460)
    IN Return(self, UDFTag_record(self["desc_tag"], rec).ret \o rec)

UDFImplementationUseVolumeDescriptor_new(self) ==
    IF self["_initialized"] THEN Raise(self, InternalError, "UDF Implementation Use Volume Descriptor already initialized")
    ELSE Return(Set(Set(Set(Set(Set(self,
                "desc_tag", UDFTag_new(NewObject, 4, 0).obj),
                "vol_desc_seqnum", 1),
                "impl_ident", UDFEntityID_new(NewObject, 0, Bytes(Ascii.UDFLVInfo), Bytes(<<2, 1>>)).obj),
                "impl_use", UDFImplementationUseVolumeDescriptorImplementationUse_new(NewObject).obj),
                "_initialized", TRUE), None)

(***************************************************************************)
(* UDFPartitionVolumeDescriptor                                            *)
(***************************************************************************)

UDFPartitionVolumeDescriptor_parse(self, data, extent) ==
    IF self["_initialized"] THEN Raise(self, InternalError, "UDF Partition Volume Descriptor already initialized")
    ELSE IF Len(data) < 512 THEN Raise(self, StructError, "unpack_from requires a buffer of at least 512 bytes")
    ELSE ParseDone(Sub(Sub(CheckPrefix(CheckAttr(Sub(CheckAttr(Sub(
             Begin(Set(Set(Set(Set(Set(Set(Set(self,
                   "vol_desc_seqnum", UnpackFrom(data, 16, 4)),
                   "part_flags", UnpackFrom(data, 20, 2)),
                   "part_num", UnpackFrom(data, 22, 2)),
                   "access_type", UnpackFrom(data, 184, 4)),
                   "part_start_location", UnpackFrom(data, 188, 4)),
                   "part_length", UnpackFrom(data, 192, 4)),
                   "implementation_use", Slice(data, 228, 356))),
             "desc_tag", UDFTag_parse(NewObject, Slice(data, 0, 16), extent, SliceFrom(data, 16))),
             "desc_tag", "tag_ident", 5, "Implementation Use Descriptor Tag identifier not 5"),
             "part_contents", UDFEntityID_parse(NewObject, Slice(data, 24, 56))),
             "part_contents", "flags", 2, "Partition Contents Flags not 2"),
             "part_contents", "identifier", 6, Ascii.PlusNSR02,
             "Partition Contents Identifier not '+NSR02'"),
             "impl_ident", UDFEntityID_parse(NewObject, Slice(data, 196, 228))),
             "part_contents_use", UDFPartitionHeaderDescriptor_parse(NewObject, Slice(data, 56, 184))),
             extent)

UDFPartitionVolumeDescriptor_record(self) ==
    IF ~self["_initialized"] THEN Raise(self, InternalError, "UDF Partition Volume Descriptor not initialized")
    ELSE
    LET rec == PackInt(self["vol_desc_seqnum"], 4) \o PackInt(self["part_flags"], 2)
               \o PackInt(self["part_num"], 2)
               \o PackStr(UDFEntityID_record(self["part_contents"]).ret, 32)
               \o PackStr(UDFPartitionHeaderDescriptor_record(self["part_contents_use"]).ret, 128)
               \o PackInt(self["access_type"], 4) \o PackInt(self["part_start_location"], 4)
               \o PackInt(self["part_length"], 4)
               \o PackStr(UDFEntityID_record(self["impl_ident"]).ret, 32)
               \o PackStr(self["implementation_use"], 128)
               \o PackStr(Zeros(156), 156)
    IN Return(self, UDFTag_record(self["desc_tag"], rec).ret \o rec)

UDFPartitionVolumeDescriptor_new(self) ==
    IF self["_initialized"] THEN Raise(self, InternalError, "UDF Partition Volume Descriptor already initialized")
    ELSE Return(Set(Set(Set(Set(Set(Set(Set(Set(Set(Set(Set(Set(self,
                "desc_tag", UDFTag_new(NewObject, 5, 0).obj),
                "vol_desc_seqnum", 2),
                "part_flags", 1),
                "part_num", 0),
                "part_contents", UDFEntityID_new(NewObject, 2, Bytes(Ascii.PlusNSR02), NoBytes).obj),
                "part_contents_use", UDFPartitionHeaderDescriptor_new(NewObject).obj),
                "access_type", 1),
                "part_start_location", 0),
                "part_length", 9),
                "impl_ident", UDFEntityID_new(NewObject, 0, NoBytes, NoBytes).obj),
                "implementation_use", Zeros(128)),
                "_initialized", TRUE), None)

\* set_start_location that moves the descriptor as well.
UDFPartitionVolumeDescriptor_set_start_location_moved(self, new_location) ==
    IF ~self["_initialized"] THEN Raise(self, InternalError, "UDF Partition Volume Descriptor not initialized")
    ELSE Return(Set(Set(self, "part_start_location", new_location),
                    "new_extent_loc", new_location), None)

UDFPartitionVolumeDescriptor_set_start_location(self, new_location) ==
    IF ~self["_initialized"] THEN Raise(self, InternalError, "UDF Partition Volume Descriptor not initialized")
    ELSE Return(Set(self, "part_start_location", new_location), None)

(***************************************************************************)
(* UDFLogicalVolumeDescriptor                                              *)
(***************************************************************************)

UDFLogicalVolumeDescriptor_parse(self, data, extent) ==
    IF self["_initialized"] THEN Raise(self, InternalError, "UDF Logical Volume Descriptor already initialized")
    ELSE IF Len(data) < 446 THEN Raise(self, StructError, "unpack_from requires a buffer of at least 446 bytes")
    ELSE
    LET logical_block_size == UnpackFrom(data, 212, 4)
        map_table_length == UnpackFrom(data, 264, 4)
        num_partition_maps == UnpackFrom(data, 268, 4)
    IN ParseDone(Sub(Sub(Sub(Check(Check(CheckPrefix(Sub(Check(CheckAttr(Sub(
           Begin(Set(Set(Set(Set(Set(Set(self,
                 "vol_desc_seqnum", UnpackFrom(data, 16, 4)),
                 "desc_charset", Slice(data, 20, 84)),
                 "logical_volume_ident", Slice(data, 84, 212)),
                 "implementation_use", Slice(data, 304, 432)),
                 "integrity_sequence_length", UnpackFrom(data, 432, 4)),
                 "integrity_sequence_extent", UnpackFrom(data, 436, 4))),
           "desc_tag", UDFTag_parse(NewObject, Slice(data, 0, 16), extent, SliceFrom(data, 16))),
           "desc_tag", "tag_ident", 6, "Volume Descriptor Tag identifier not 6"),
           logical_block_size # 2048, InvalidISO, "Volume Descriptor block size is not 2048"),
           "domain_ident", UDFEntityID_parse(NewObject, Slice(data, 216, 248))),
           "domain_ident", "identifier", 19, Ascii.OSTACompliant,
           "Volume Descriptor Identifier not '*OSTA UDF Compliant'"),
           map_table_length # 6, InvalidISO, "Volume Descriptor map table length not 6"),
           num_partition_maps # 1, InvalidISO, "Volume Descriptor number of partition maps not 1"),
           "impl_ident", UDFEntityID_parse(NewObject, Slice(data, 272, 304))),
           "partition_map", UDFPartitionMap_parse(NewObject, Slice(data, 440, 446))),
           "logical_volume_contents_use", UDFLongAD_parse(NewObject, Slice(data, 248, 264))),
           extent)

UDFLogicalVolumeDescriptor_record(self) ==
    IF ~self["_initialized"] THEN Raise(self, InternalError, "UDF Logical Volume Descriptor not initialized")
    ELSE
    LET rec == PackInt(self["vol_desc_seqnum"], 4) \o PackStr(self["desc_charset"], 64)
               \o PackStr(self["logical_volume_ident"], 128) \o PackInt(2048, 4)
               \o PackStr(UDFEntityID_record(self["domain_ident"]).ret, 32)
               \o PackStr(UDFLongAD_record(self["logical_volume_contents_use"]).ret, 16)
               \o PackInt(6, 4) \o PackInt(1, 4)
               \o PackStr(UDFEntityID_record(self["impl_ident"]).ret, 32)
               \o PackStr(self["implementation_use"], 128)
               \o PackInt(self["integrity_sequence_length"], 4)
               \o PackInt(self["integrity_sequence_extent"], 4)
               \o PackStr(UDFPartitionMap_record(self["partition_map"]).ret, 6)
    IN Return(self, UDFTag_record(self["desc_tag"], rec).ret \o rec)

UDFLogicalVolumeDescriptor_new(self) ==
    IF self["_initialized"] THEN Raise(self, InternalError, "UDF Logical Volume Descriptor already initialized")
    ELSE Return(Set(Set(Set(Set(Set(Set(Set(Set(Set(Set(Set(Set(self,
                "desc_tag", UDFTag_new(NewObject, 6, 0).obj),
                "vol_desc_seqnum", 3),
                "desc_charset", FormatPad(Ascii.OSTAUnicode, 64)),
                "logical_volume_ident", FormatPad(Ascii.CDROM, 127) \o <<6>>),
                "domain_ident", UDFEntityID_new(NewObject, 0, Bytes(Ascii.OSTACompliant), Bytes(<<2, 1, 3>>)).obj),
                "logical_volume_contents_use", UDFLongAD_new(NewObject, 4096, 0).obj),
                "impl_ident", UDFEntityID_new(NewObject, 0, NoBytes, NoBytes).obj),
                "implementation_use", Zeros(128)),
                "integrity_sequence_length", 4096),
                "integrity_sequence_extent", 0),
                "partition_map", UDFPartitionMap_new(NewObject).obj),
                "_initialized", TRUE), None)

UDFLogicalVolumeDescriptor_set_integrity_location(self, integrity_extent) ==
    IF ~self["_initialized"] THEN Raise(self, InternalError, "UDF Logical Volume Descriptor not initialized")
    ELSE Return(Set(self, "integrity_sequence_extent", integrity_extent), None)

(***************************************************************************)
(* UDFUnallocatedSpaceDescriptor                                           *)
(***************************************************************************)

UDFUnallocatedSpaceDescriptor_parse(self, data, extent) ==
    IF self["_initialized"] THEN Raise(self, InternalError, "UDF Unallocated Space Descriptor already initialized")
    ELSE IF Len(data) < 24 THEN Raise(self, StructError, "unpack_from requires a buffer of at least 24 bytes")
    ELSE
    LET num_alloc_descriptors == UnpackFrom(data, 20, 4)
    IN ParseDone(Check(CheckAttr(Sub(
           Begin(Set(self, "vol_desc_seqnum", UnpackFrom(data, 16, 4))),
           "desc_tag", UDFTag_parse(NewObject, Slice(data, 0, 16), extent, SliceFrom(data, 16))),
           "desc_tag", "tag_ident", 7, "Unallocated Space Tag identifier not 7"),
           num_alloc_descriptors # 0, InvalidISO,
           "UDF Unallocated Space Descriptor allocated descriptors is not 0"),
           extent)

UDFUnallocatedSpaceDescriptor_record(self) ==
    IF ~self["_initialized"] THEN Raise(self, InternalError, "UDF Unallocated Space Descriptor not initialized")
    ELSE
    LET rec == PackInt(self["vol_desc_seqnum"], 4) \o PackInt(0, 4)
    IN Return(self, UDFTag_record(self["desc_tag"], rec).ret \o rec)

UDFUnallocatedSpaceDescriptor_new(self) ==
    IF self["_initialized"] THEN Raise(self, InternalError, "UDF Unallocated Space Descriptor already initialized")
    ELSE Return(Set(Set(Set(self,
                "desc_tag", UDFTag_new(NewObject, 7, 0).obj),
                "vol_desc_seqnum", 4),
                "_initialized", TRUE), None)

(***************************************************************************)
(* UDFTerminatingDescriptor                                                *)
(***************************************************************************)

\* UDFTerminatingDescriptor.parse with the tag checked against the extent.
UDFTerminatingDescriptor_parse_absolute(self, data, extent, start_extent) ==
    IF self["_initialized"] THEN Raise(self, InternalError, "UDF Terminating Descriptor already initialized")
    ELSE IF Len(data) < 512 THEN Raise(self, StructError, "unpack_from requires a buffer of at least 512 bytes")
    ELSE ParseDone(CheckAttr(Sub(Begin(self),
             "desc_tag",
             UDFTag_parse(NewObject, Slice(data, 0, 16), extent, SliceFrom(data, 16))),
             "desc_tag", "tag_ident", 8, "Terminating Tag identifier not 8"),
             extent)

UDFTerminatingDescriptor_parse(self, data, extent, start_extent) ==
    IF self["_initialized"] THEN Raise(self, InternalError, "UDF Terminating Descriptor already initialized")
    ELSE IF Len(data) < 512 THEN Raise(self, StructError, "unpack_from requires a buffer of at least 512 bytes")
    ELSE ParseDone(CheckAttr(Sub(Begin(self),
             "desc_tag",
             UDFTag_parse(NewObject, Slice(data, 0, 16), extent - start_extent, SliceFrom(data, 16))),
             "desc_tag", "tag_ident", 8, "Terminating Tag identifier not 8"),
             extent)

UDFTerminatingDescriptor_record(self) ==
    IF ~self["_initialized"] THEN Raise(self, InternalError, "UDF Terminating Descriptor not initialized")
    ELSE
    LET rec == PackStr(Zeros(496), 496)
    IN Return(self, UDFTag_record(self["desc_tag"], rec).ret \o rec)

UDFTerminatingDescriptor_new(self) ==
    IF self["_initialized"] THEN Raise(self, InternalError, "UDF Terminating Descriptor already initialized")
    ELSE Return(Set(Set(self, "desc_tag", UDFTag_new(NewObject, 8, 0).obj), "_initialized", TRUE), None)

\* tag_location is None when the caller leaves the second argument out.
UDFTerminatingDescriptor_set_location(self, new_location, tag_location) ==
    IF ~self["_initialized"] THEN Raise(self, InternalError, "UDF Terminating Descriptor not initialized")
    ELSE Return(SetTagLocation(Set(self, "new_extent_loc", new_location), "desc_tag",
                               IF tag_location = None THEN new_location ELSE tag_location), None)

(***************************************************************************)
(* UDFLogicalVolumeIntegrityDescriptor                                     *)
(***************************************************************************)

UDFLogicalVolumeIntegrityDescriptor_parse(self, data, extent) ==
    IF self["_initialized"] THEN Raise(self, InternalError, "UDF Logical Volume Integrity Descriptor already initialized")
    ELSE IF Len(data) < 512 THEN Raise(self, StructError, "unpack_from requires a buffer of at least 512 bytes")
    ELSE
    LET integrity_type == UnpackFrom(data, 28, 4)
        next_integrity_extent_length == UnpackFrom(data, 32, 4)
        next_integrity_extent_extent == UnpackFrom(data, 36, 4)
        num_partitions == UnpackFrom(data, 72, 4)
        length_impl_use == UnpackFrom(data, 76, 4)
        free_space_table == UnpackFrom(data, 80, 4)
    IN ParseDone(Sub(Sub(Check(Check(Check(Check(Check(Check(Sub(CheckAttr(Sub(
           Begin(Set(Set(Set(self,
                 "length_impl_use", length_impl_use),
                 "free_space_table", free_space_table),
                 "size_table", UnpackFrom(data, 84, 4))),
           "desc_tag", UDFTag_parse(NewObject, Slice(data, 0, 16), extent, Slice(data, 16, 16 + 118))),
           "desc_tag", "tag_ident", 9, "Logical Volume Integrity Tag identifier not 9"),
           "recording_date", UDFTimestamp_parse(NewObject, Slice(data, 16, 28))),
           integrity_type # 1, InvalidISO, "Logical Volume Integrity Type not 1"),
           next_integrity_extent_length # 0, InvalidISO, "Logical Volume Integrity Extent length not 1"),
           next_integrity_extent_extent # 0, InvalidISO, "Logical Volume Integrity Extent extent not 1"),
           num_partitions # 1, InvalidISO, "Logical Volume Integrity number partitions not 1"),
           length_impl_use > 424, InvalidISO,
           "Logical Volume Integrity implementation use length too large"),
           free_space_table # 0, InvalidISO, "Logical Volume Integrity free space table not 0"),
           "logical_volume_contents_use",
           UDFLogicalVolumeHeaderDescriptor_parse(NewObject, Slice(data, 40, 72))),
           "logical_volume_impl_use",
           UDFLogicalVolumeImplementationUse_parse(NewObject, Slice(data, 88, 512))),
           extent)

\* UDFLogicalVolumeIntegrityDescriptor.record with the CRC over the whole body.
UDFLogicalVolumeIntegrityDescriptor_record_whole(self) ==
    IF ~self["_initialized"] THEN Raise(self, InternalError, "UDF Logical Volume Integrity Descriptor not initialized")
    ELSE
    LET rec == PackStr(UDFTimestamp_record(self["recording_date"]).ret, 12)
               \o PackInt(1, 4) \o PackInt(0, 4) \o PackInt(0, 4)
               \o PackStr(UDFLogicalVolumeHeaderDescriptor_record(self["logical_volume_contents_use"]).ret, 32)
               \o PackInt(1, 4)
               \o PackInt(self["length_impl_use"], 4) \o PackInt(self["free_space_table"], 4)
               \o PackInt(self["size_table"], 4)
               \o PackStr(UDFLogicalVolumeImplementationUse_record(self["logical_volume_impl_use"]).ret, 424)
    IN Return(self, UDFTag_record(self["desc_tag"], rec).ret \o rec)

UDFLogicalVolumeIntegrityDescriptor_record(self) ==
    IF ~self["_initialized"] THEN Raise(self, InternalError, "UDF Logical Volume Integrity Descriptor not initialized")
    ELSE
    LET rec == PackStr(UDFTimestamp_record(self["recording_date"]).ret, 12)
               \o PackInt(1, 4) \o PackInt(0, 4) \o PackInt(0, 4)
               \o PackStr(UDFLogicalVolumeHeaderDescriptor_record(self["logical_volume_contents_use"]).ret, 32)
               \o PackInt(1, 4)
               \o PackInt(self["length_impl_use"], 4) \o PackInt(self["free_space_table"], 4)
               \o PackInt(self["size_table"], 4)
               \o PackStr(UDFLogicalVolumeImplementationUse_record(self["logical_volume_impl_use"]).ret, 424)
    IN Return(self, UDFTag_record(self["desc_tag"], Slice(rec, 0, 118)).ret \o rec)

UDFLogicalVolumeIntegrityDescriptor_new(self, clock) ==
    IF self["_initialized"] THEN Raise(self, InternalError, "UDF Logical Volume Integrity Descriptor already initialized")
    ELSE Return(Set(Set(Set(Set(Set(Set(Set(Set(self,
                "desc_tag", UDFTag_new(NewObject, 9, 0).obj),
                "recording_date", UDFTimestamp_new(NewObject, clock).obj),
                "length_impl_use", 46),
                "free_space_table", 0),
                "size_table", 9),
                "logical_volume_contents_use", UDFLogicalVolumeHeaderDescriptor_new(NewObject).obj),
                "logical_volume_impl_use", UDFLogicalVolumeImplementationUse_new(NewObject).obj),
                "_initialized", TRUE), None)

(***************************************************************************)
(* UDFFileSetDescriptor                                                    *)
(***************************************************************************)

UDFFileSetDescriptor_parse(self, data, extent, start_extent) ==
    IF self["_initialized"] THEN Raise(self, InternalError, "UDF File Set Descriptor already initialized")
    ELSE IF Len(data) < 512 THEN Raise(self, StructError, "unpack_from requires a buffer of at least 512 bytes")
    ELSE
    LET interchange_level == UnpackFrom(data, 28, 2)
        max_interchange_level == UnpackFrom(data, 30, 2)
        charset_list == UnpackFrom(data, 32, 4)
        max_charset_list == UnpackFrom(data, 36, 4)
        file_set_num == UnpackFrom(data, 40, 4)
        file_set_desc_num == UnpackFrom(data, 44, 4)
        next_extent == Slice(data, 448, 464)
    IN ParseDone(Check(Sub(CheckPrefix(Sub(Check(Sub(CheckAttr(Sub(
           Begin(Set(Set(Set(Set(Set(Set(self,
                 "log_vol_charset", Slice(data, 48, 112)),
                 "log_vol_ident", Slice(data, 112, 240)),
                 "file_set_charset", Slice(data, 240, 304)),
                 "file_set_ident", Slice(data, 304, 336)),
                 "copyright_file_ident", Slice(data, 336, 368)),
                 "abstract_file_ident", Slice(data, 368, 400))),
           "desc_tag",
           UDFTag_parse(NewObject, Slice(data, 0, 16), extent - start_extent, SliceFrom(data, 16))),
           "desc_tag", "tag_ident", 256, "File Set Descriptor Tag identifier not 9"),
           "recording_date", UDFTimestamp_parse(NewObject, Slice(data, 16, 28))),
           interchange_level # 3 \/ max_interchange_level # 3 \/ charset_list # 1
               \/ max_charset_list # 1 \/ file_set_num # 0 \/ file_set_desc_num # 0,
           InvalidISO, "Only DVD Read-Only disks are supported"),
           "domain_ident", UDFEntityID_parse(NewObject, Slice(data, 416, 448))),
           "domain_ident", "identifier", 19, Ascii.OSTACompliant,
           "File Set Descriptor Identifier not '*OSTA UDF Compliant'"),
           "root_dir_icb", UDFLongAD_parse(NewObject, Slice(data, 400, 416))),
           next_extent # Zeros(16), InvalidISO, "Only DVD Read-Only disks are supported"),
           extent)

UDFFileSetDescriptor_record(self) ==
    IF ~self["_initialized"] THEN Raise(self, InternalError, "UDF File Set Descriptor not initialized")
    ELSE
    LET rec == PackStr(UDFTimestamp_record(self["recording_date"]).ret, 12)
               \o PackInt(3, 2) \o PackInt(3, 2) \o PackInt(1, 4) \o PackInt(1, 4)
               \o PackInt(0, 4) \o PackInt(0, 4)
               \o PackStr(self["log_vol_charset"], 64) \o PackStr(self["log_vol_ident"], 128)
               \o PackStr(self["file_set_charset"], 64) \o PackStr(self["file_set_ident"], 32)
               \o PackStr(self["copyright_file_ident"], 32)
               \o PackStr(self["abstract_file_ident"], 32)
               \o PackStr(UDFLongAD_record(self["root_dir_icb"]).ret, 16)
               \o PackStr(UDFEntityID_record(self["domain_ident"]).ret, 32)
               \o PackStr(Zeros(16), 16) \o PackStr(Zeros(48), 48)
    IN Return(self, UDFTag_record(self["desc_tag"], rec).ret \o rec)

UDFFileSetDescriptor_new(self, clock) ==
    IF self["_initialized"] THEN Raise(self, InternalError, "UDF File Set Descriptor already initialized")
    ELSE Return(Set(Set(Set(Set(Set(Set(Set(Set(Set(Set(Set(self,
                "desc_tag", UDFTag_new(NewObject, 256, 0).obj),
                "recording_date", UDFTimestamp_new(NewObject, clock).obj),
                "domain_ident", UDFEntityID_new(NewObject, 0, Bytes(Ascii.OSTACompliant), Bytes(<<2, 1, 3>>)).obj),
                "root_dir_icb", UDFLongAD_new(NewObject, 2048, 2).obj),
                "log_vol_charset", Zeros(64)),
                "log_vol_ident", Zeros(128)),
                "file_set_charset", Zeros(64)),
                "file_set_ident", Zeros(32)),
                "copyright_file_ident", Zeros(32)),
                "abstract_file_ident", Zeros(32)),
                "_initialized", TRUE), None)

(***************************************************************************)
(* UDFFileEntry                                                            *)
(***************************************************************************)

\* UDFFileEntry.__init__
NewFileEntry == Set(Set(NewObject, "alloc_descs", <<>>), "descs", <<>>)

RECURSIVE allocLoop(_, _, _, _)
\* for i_unused in range(0, n):
\*     (length, pos) = struct.unpack("=LL", data[offset:offset + 8])
\*     self.alloc_descs.append((length, pos)); offset += 8
\* struct.unpack raises when the slice is shorter than 8 bytes; what was
\* appended before stays in the list.  n is self.len_alloc_descs / 8, the
\* integer division of the Python 2 the module is written for.
allocLoop(data, offset, n, alloc_descs) ==
    IF n <= 0 THEN [obj |-> alloc_descs, err |-> NoError, msg |-> ""]
    ELSE IF Len(Slice(data, offset, offset + 8)) # 8
         THEN [obj |-> alloc_descs, err |-> StructError,
               msg |-> "unpack requires a string argument of length 8"]
    ELSE allocLoop(data, offset + 8, n - 1,
                   Append(alloc_descs, <<UnpackFrom(data, offset, 4), UnpackFrom(data, offset + 4, 4)>>))

UDFFileEntry_parse(self, data, extent, start_extent) ==
    IF self["_initialized"] THEN Raise(self, InternalError, "UDF File Entry already initialized")
    ELSE IF Len(data) < 176 THEN Raise(self, StructError, "unpack_from requires a buffer of at least 176 bytes")
    ELSE
    LET record_format == UnpackFrom(data, 50, 1)
        record_display_attrs == UnpackFrom(data, 51, 1)
        record_len == UnpackFrom(data, 52, 4)
        checkpoint == UnpackFrom(data, 108, 4)
        len_extended_attrs == UnpackFrom(data, 168, 4)
        len_alloc_descs == UnpackFrom(data, 172, 4)
        offset == 176
    IN ParseDone(Sub(Assign(Sub(Sub(Check(Sub(Sub(Sub(Check(Check(Check(Sub(CheckAttr(Sub(
           Begin(Set(Set(Set(Set(Set(Set(Set(Set(Set(self,
                 "uid", UnpackWide(data, 36, 4)),
                 "gid", UnpackWide(data, 40, 4)),
                 "perms", UnpackFrom(data, 44, 4)),
                 "file_link_count", UnpackFrom(data, 48, 2)),
                 "info_len", UnpackFrom(data, 56, 8)),
                 "log_block_recorded", UnpackFrom(data, 64, 8)),
                 "unique_id", UnpackFrom(data, 160, 8)),
                 "len_extended_attrs", len_extended_attrs),
                 "len_alloc_descs", len_alloc_descs)),
           "desc_tag",
           UDFTag_parse(NewObject, Slice(data, 0, 16), extent - start_extent, Slice(data, 16, 16 + 168))),
           "desc_tag", "tag_ident", 261, "File Entry Descriptor Tag identifier not 9"),
           "icb_tag", UDFICBTag_parse(NewObject, Slice(data, 16, 36))),
           record_format # 0, InvalidISO, "File Entry record format is not 0"),
           record_display_attrs # 0, InvalidISO, "File Entry record display attributes is not 0"),
           record_len # 0, InvalidISO, "File Entry record length is not 0"),
           "access_time", UDFTimestamp_parse(NewObject, Slice(data, 72, 84))),
           "mod_time", UDFTimestamp_parse(NewObject, Slice(data, 84, 96))),
           "attr_time", UDFTimestamp_parse(NewObject, Slice(data, 96, 108))),
           checkpoint # 1, InvalidISO, "Only DVD Read-only disks supported"),
           "extended_attr_icb", UDFLongAD_parse(NewObject, Slice(data, 112, 128))),
           "impl_ident", UDFEntityID_parse(NewObject, Slice(data, 128, 160))),
           "extended_attrs", Slice(data, offset, offset + len_extended_attrs)),
           "alloc_descs",
           allocLoop(data, offset + len_extended_attrs, len_alloc_descs \div 8, self["alloc_descs"])),
           extent)

RECURSIVE PackAllocDescs(_, _)
\* for length, pos in self.alloc_descs: rec += struct.pack("=LL", length, pos)
PackAllocDescs(alloc_descs, i) ==
    IF i > Len(alloc_descs) THEN <<>>
    ELSE PackInt(alloc_descs[i][1], 4) \o PackInt(alloc_descs[i][2], 4)
         \o PackAllocDescs(alloc_descs, i + 1)

UDFFileEntry_record(self) ==
    IF ~self["_initialized"] THEN Raise(self, InternalError, "UDF File Entry not initialized")
    ELSE
    LET rec == PackStr(UDFICBTag_record(self["icb_tag"]).ret, 20)
               \o PackWide(self["uid"], 4) \o PackWide(self["gid"], 4) \o PackInt(self["perms"], 4)
               \o PackInt(self["file_link_count"], 2)
               \o PackInt(0, 1) \o PackInt(0, 1) \o PackInt(0, 4)
               \o PackInt(self["info_len"], 8) \o PackInt(self["log_block_recorded"], 8)
               \o PackStr(UDFTimestamp_record(self["access_time"]).ret, 12)
               \o PackStr(UDFTimestamp_record(self["mod_time"]).ret, 12)
               \o PackStr(UDFTimestamp_record(self["attr_time"]).ret, 12)
               \o PackInt(1, 4)
               \o PackStr(UDFLongAD_record(self["extended_attr_icb"]).ret, 16)
               \o PackStr(UDFEntityID_record(self["impl_ident"]).ret, 32)
               \o PackInt(self["unique_id"], 8)
               \o PackInt(self["len_extended_attrs"], 4) \o PackInt(self["len_alloc_descs"], 4)
               \o PackAllocDescs(self["alloc_descs"], 1)
    IN Return(self, UDFTag_record(self["desc_tag"], rec).ret \o rec)

UDFFileEntry_new(self, clock) ==
    IF self["_initialized"] THEN Raise(self, InternalError, "UDF File Entry already initialized")
    ELSE Return(Set(Set(Set(Set(Set(Set(Set(Set(Set(Set(Set(Set(Set(Set(Set(Set(Set(Set(self,
                "desc_tag", UDFTag_new(NewObject, 261, 0).obj),
                "icb_tag", UDFICBTag_new(NewObject).obj),
                "uid", <<255, 255, 255, 255>>),
                "gid", <<255, 255, 255, 255>>),
                "perms", 5285),
                "file_link_count", 1),
                "info_len", 40),
                "log_block_recorded", 1),
                "access_time", UDFTimestamp_new(NewObject, clock).obj),
                "mod_time", UDFTimestamp_new(NewObject, clock).obj),
                "attr_time", UDFTimestamp_new(NewObject, clock).obj),
                "extended_attr_icb", UDFLongAD_new(NewObject, 0, 0).obj),
                "impl_ident", UDFEntityID_new(NewObject, 0, Bytes(Ascii.genisoimage), NoBytes).obj),
                "unique_id", 0),
                "len_extended_attrs", 0),
                "len_alloc_descs", Len(self["alloc_descs"])),
                "extended_attrs", <<>>),
                "_initialized", TRUE), None)

UDFFileEntry_set_location(self, new_location, tag_location) ==
    IF ~self["_initialized"] THEN Raise(self, InternalError, "UDF File Entry not initialized")
    ELSE Return(SetTagLocation(Set(self, "new_extent_loc", new_location), "desc_tag", tag_location), None)

(***************************************************************************)
(* UDFFileIdentifierDescriptor                                             *)
(***************************************************************************)

\* UDFFileIdentifierDescriptor.__init__ (file_entry = None)
NewFileIdentifier == Set(NewObject, "file_entry", None)

\* pad with no padding at all.
pad_none(val) == 0

pad(val) == (4 * ((val + 3) \div 4)) - val

UDFFileIdentifierDescriptor_parse(self, data, extent, start_extent) ==
    IF self["_initialized"] THEN Raise(self, InternalError, "UDF File Identifier Descriptor already initialized")
    ELSE IF Len(data) < 38 THEN Raise(self, StructError, "unpack_from requires a buffer of at least 38 bytes")
    ELSE
    LET file_version_num == UnpackFrom(data, 16, 2)
        file_characteristics == UnpackFrom(data, 18, 1)
        len_fi == UnpackFrom(data, 19, 1)
        len_impl_use == UnpackFrom(data, 36, 2)
        end1 == 38 + len_impl_use
        end2 == end1 + len_fi
    IN End(Assign(Assign(Assign(Assign(Assign(Sub(Assign(Assign(Check(CheckAttr(Sub(
           Begin(Set(Set(Set(self,
                 "file_characteristics", file_characteristics),
                 "len_fi", len_fi),
                 "len_impl_use", len_impl_use)),
           "desc_tag",
           UDFTag_parse(NewObject, Slice(data, 0, 16), extent - start_extent, SliceFrom(data, 16))),
           "desc_tag", "tag_ident", 257, "File Identifier Descriptor Tag identifier not 257"),
           file_version_num # 1, InvalidISO, "File Identifier Descriptor file version number not 1"),
           "isdir", BitSet(file_characteristics, 1)),
           "isparent", BitSet(file_characteristics, 3)),
           "icb", UDFLongAD_parse(NewObject, Slice(data, 20, 36))),
           "impl_use", Slice(data, 38, end1)),
           "fi", Slice(data, end1, end2)),
           "orig_extent_loc", extent),
           "new_extent_loc", None),
           "_initialized", TRUE),
           end2 + pad(end2))

is_dir(self) ==
    IF ~self["_initialized"] THEN Raise(self, InternalError, "UDF File Identifier Descriptor not initialized")
    ELSE Return(self, self["isdir"])

is_parent(self) ==
    IF ~self["_initialized"] THEN Raise(self, InternalError, "UDF File Identifier Descriptor not initialized")
    ELSE Return(self, self["isparent"])

UDFFileIdentifierDescriptor_record(self) ==
    IF ~self["_initialized"] THEN Raise(self, InternalError, "UDF File Identifier Descriptor not initialized")
    ELSE
    LET rec == Zeros(16) \o PackInt(1, 2) \o PackInt(self["file_characteristics"], 1)
               \o PackInt(self["len_fi"], 1)
               \o PackStr(UDFLongAD_record(self["icb"]).ret, 16)
               \o PackInt(self["len_impl_use"], 2)
               \o self["impl_use"] \o self["fi"]
               \o Zeros(pad(38 + self["len_impl_use"] + self["len_fi"]))
    IN Return(self, UDFTag_record(self["desc_tag"], SliceFrom(rec, 16)).ret \o SliceFrom(rec, 16))

UDFFileIdentifierDescriptor_new(self, isdir, isparent) ==
    IF self["_initialized"] THEN Raise(self, InternalError, "UDF File Identifier already initialized")
    ELSE Return(Set(Set(Set(Set(Set(Set(Set(Set(Set(Set(self,
                "desc_tag", UDFTag_new(NewObject, 257, 0).obj),
                "icb", UDFLongAD_new(NewObject, 2048, 2).obj),
                "isdir", isdir),
                "isparent", isparent),
                "file_characteristics", (IF isdir THEN 2 ELSE 0) + (IF isparent THEN 8 ELSE 0)),
                "len_fi", 0),
                "len_impl_use", 0),
                "fi", <<>>),
                "impl_use", <<>>),
                "_initialized", TRUE), None)

UDFFileIdentifierDescriptor_set_location(self, new_location, tag_location) ==
    IF ~self["_initialized"] THEN Raise(self, InternalError, "UDF File Identifier not initialized")
    ELSE Return(SetTagLocation(Set(self, "new_extent_loc", new_location), "desc_tag", tag_location), None)

(***************************************************************************)
(* The classes of the file, and a method call on an object of a class      *)
(***************************************************************************)

VolumeStructures == {"BEAVolumeStructure", "NSRVolumeStructure", "TEAVolumeStructure"}

\* The descriptors that carry a UDFTag.
Tagged ==
    {"UDFAnchorVolumeStructure", "UDFPrimaryVolumeDescriptor",
     "UDFImplementationUseVolumeDescriptor", "UDFPartitionVolumeDescriptor",
     "UDFLogicalVolumeDescriptor", "UDFUnallocatedSpaceDescriptor",
     "UDFTerminatingDescriptor", "UDFLogicalVolumeIntegrityDescriptor",
     "UDFFileSetDescriptor", "UDFFileEntry", "UDFFileIdentifierDescriptor"}

\* The classes with orig_extent_loc, new_extent_loc and extent_location().
Descriptors == VolumeStructures \cup Tagged

SubRecords ==
    {"UDFTag", "UDFTimestamp", "UDFEntityID",
     "UDFImplementationUseVolumeDescriptorImplementationUse",
     "UDFPartitionHeaderDescriptor", "UDFPartitionMap", "UDFLongAD",
     "UDFLogicalVolumeHeaderDescriptor", "UDFLogicalVolumeImplementationUse",
     "UDFICBTag"}

Kinds == Descriptors \cup SubRecords

\* parse(data, extent, start_extent): the descriptors that live in the partition.
TakesStartExtent ==
    {"UDFTerminatingDescriptor", "UDFFileSetDescriptor", "UDFFileEntry",
     "UDFFileIdentifierDescriptor"}

\* The classes that define set_location.
HasSetLocation == Tagged \ {"UDFFileSetDescriptor"}

\* The attribute that holds the descriptor's tag.
TagSlot(k) == IF k = "UDFAnchorVolumeStructure" THEN "udf_tag" ELSE "desc_tag"

\* The object a constructor call gives: Class().
Fresh(k) ==
    IF k = "UDFFileEntry" THEN NewFileEntry
    ELSE IF k = "UDFFileIdentifierDescriptor" THEN NewFileIdentifier
    ELSE NewObject

\* obj.parse(...) with i = [data, extent, start, crc_bytes]; each class takes
\* the arguments its parse declares.
DoParse(k, self, i) ==
    CASE k = "BEAVolumeStructure" -> BEAVolumeStructure_parse(self, i.data, i.extent)
      [] k = "NSRVolumeStructure" -> NSRVolumeStructure_parse(self, i.data, i.extent)
      [] k = "TEAVolumeStructure" -> TEAVolumeStructure_parse(self, i.data, i.extent)
      [] k = "UDFAnchorVolumeStructure" -> UDFAnchorVolumeStructure_parse(self, i.data, i.extent)
      [] k = "UDFPrimaryVolumeDescriptor" -> UDFPrimaryVolumeDescriptor_parse(self, i.data, i.extent)
      [] k = "UDFImplementationUseVolumeDescriptor" ->
             UDFImplementationUseVolumeDescriptor_parse(self, i.data, i.extent)
      [] k = "UDFPartitionVolumeDescriptor" -> UDFPartitionVolumeDescriptor_parse(self, i.data, i.extent)
      [] k = "UDFLogicalVolumeDescriptor" -> UDFLogicalVolumeDescriptor_parse(self, i.data, i.extent)
      [] k = "UDFUnallocatedSpaceDescriptor" -> UDFUnallocatedSpaceDescriptor_parse(self, i.data, i.extent)
      [] k = "UDFTerminatingDescriptor" -> UDFTerminatingDescriptor_parse(self, i.data, i.extent, i.start)
      [] k = "UDFLogicalVolumeIntegrityDescriptor" ->
             UDFLogicalVolumeIntegrityDescriptor_parse(self, i.data, i.extent)
      [] k = "UDFFileSetDescriptor" -> UDFFileSetDescriptor_parse(self, i.data, i.extent, i.start)
      [] k = "UDFFileEntry" -> UDFFileEntry_parse(self, i.data, i.extent, i.start)
      [] k = "UDFFileIdentifierDescriptor" ->
             UDFFileIdentifierDescriptor_parse(self, i.data, i.extent, i.start)
      [] k = "UDFTag" -> UDFTag_parse(self, i.data, i.extent, i.crc_bytes)
      [] k = "UDFTimestamp" -> UDFTimestamp_parse(self, i.data)
      [] k = "UDFEntityID" -> UDFEntityID_parse(self, i.data)
      [] k = "UDFImplementationUseVolumeDescriptorImplementationUse" ->
             UDFImplementationUseVolumeDescriptorImplementationUse_parse(self, i.data)
      [] k = "UDFPartitionHeaderDescriptor" -> UDFPartitionHeaderDescriptor_parse(self, i.data)
      [] k = "UDFPartitionMap" -> UDFPartitionMap_parse(self, i.data)
      [] k = "UDFLongAD" -> UDFLongAD_parse(self, i.data)
      [] k = "UDFLogicalVolumeHeaderDescriptor" -> UDFLogicalVolumeHeaderDescriptor_parse(self, i.data)
      [] k = "UDFLogicalVolumeImplementationUse" -> UDFLogicalVolumeImplementationUse_parse(self, i.data)
      [] k = "UDFICBTag" -> UDFICBTag_parse(self, i.data)

\* obj.record(); the tag's record takes the bytes to compute the CRC over.
DoRecord(k, self, crc_bytes) ==
    CASE k = "BEAVolumeStructure" -> BEAVolumeStructure_record(self)
      [] k = "NSRVolumeStructure" -> NSRVolumeStructure_record(self)
      [] k = "TEAVolumeStructure" -> TEAVolumeStructure_record(self)
      [] k = "UDFAnchorVolumeStructure" -> UDFAnchorVolumeStructure_record(self)
      [] k = "UDFPrimaryVolumeDescriptor" -> UDFPrimaryVolumeDescriptor_record(self)
      [] k = "UDFImplementationUseVolumeDescriptor" -> UDFImplementationUseVolumeDescriptor_record(self)
      [] k = "UDFPartitionVolumeDescriptor" -> UDFPartitionVolumeDescriptor_record(self)
      [] k = "UDFLogicalVolumeDescriptor" -> UDFLogicalVolumeDescriptor_record(self)
      [] k = "UDFUnallocatedSpaceDescriptor" -> UDFUnallocatedSpaceDescriptor_record(self)
      [] k = "UDFTerminatingDescriptor" -> UDFTerminatingDescriptor_record(self)
      [] k = "UDFLogicalVolumeIntegrityDescriptor" -> UDFLogicalVolumeIntegrityDescriptor_record(self)
      [] k = "UDFFileSetDescriptor" -> UDFFileSetDescriptor_record(self)
      [] k = "UDFFileEntry" -> UDFFileEntry_record(self)
      [] k = "UDFFileIdentifierDescriptor" -> UDFFileIdentifierDescriptor_record(self)
      [] k = "UDFTag" -> UDFTag_record(self, crc_bytes)
      [] k = "UDFTimestamp" -> UDFTimestamp_record(self)
      [] k = "UDFEntityID" -> UDFEntityID_record(self)
      [] k = "UDFImplementationUseVolumeDescriptorImplementationUse" ->
             UDFImplementationUseVolumeDescriptorImplementationUse_record(self)
      [] k = "UDFPartitionHeaderDescriptor" -> UDFPartitionHeaderDescriptor_record(self)
      [] k = "UDFPartitionMap" -> UDFPartitionMap_record(self)
      [] k = "UDFLongAD" -> UDFLongAD_record(self)
      [] k = "UDFLogicalVolumeHeaderDescriptor" -> UDFLogicalVolumeHeaderDescriptor_record(self)
      [] k = "UDFLogicalVolumeImplementationUse" -> UDFLogicalVolumeImplementationUse_record(self)
      [] k = "UDFICBTag" -> UDFICBTag_record(self)

\* obj.new(...) with a = [clock, random64, tag_ident, flags, identifier, suffix,
\* length, blocknum, isdir, isparent]; each class takes the arguments its new
\* declares, and the clock and the random bits where its new reads them.
DoNew(k, self, a) ==
    CASE k = "BEAVolumeStructure" -> BEAVolumeStructure_new(self)
      [] k = "NSRVolumeStructure" -> NSRVolumeStructure_new(self)
      [] k = "TEAVolumeStructure" -> TEAVolumeStructure_new(self)
      [] k = "UDFAnchorVolumeStructure" -> UDFAnchorVolumeStructure_new(self)
      [] k = "UDFPrimaryVolumeDescriptor" -> UDFPrimaryVolumeDescriptor_new(self, a.clock, a.random64)
      [] k = "UDFImplementationUseVolumeDescriptor" -> UDFImplementationUseVolumeDescriptor_new(self)
      [] k = "UDFPartitionVolumeDescriptor" -> UDFPartitionVolumeDescriptor_new(self)
      [] k = "UDFLogicalVolumeDescriptor" -> UDFLogicalVolumeDescriptor_new(self)
      [] k = "UDFUnallocatedSpaceDescriptor" -> UDFUnallocatedSpaceDescriptor_new(self)
      [] k = "UDFTerminatingDescriptor" -> UDFTerminatingDescriptor_new(self)
      [] k = "UDFLogicalVolumeIntegrityDescriptor" ->
             UDFLogicalVolumeIntegrityDescriptor_new(self, a.clock)
      [] k = "UDFFileSetDescriptor" -> UDFFileSetDescriptor_new(self, a.clock)
      [] k = "UDFFileEntry" -> UDFFileEntry_new(self, a.clock)
      [] k = "UDFFileIdentifierDescriptor" -> UDFFileIdentifierDescriptor_new(self, a.isdir, a.isparent)
      [] k = "UDFTag" -> UDFTag_new(self, a.tag_ident, 0)
      [] k = "UDFTimestamp" -> UDFTimestamp_new(self, a.clock)
      [] k = "UDFEntityID" -> UDFEntityID_new(self, a.flags, a.identifier, a.suffix)
      [] k = "UDFImplementationUseVolumeDescriptorImplementationUse" ->
             UDFImplementationUseVolumeDescriptorImplementationUse_new(self)
      [] k = "UDFPartitionHeaderDescriptor" -> UDFPartitionHeaderDescriptor_new(self)
      [] k = "UDFPartitionMap" -> UDFPartitionMap_new(self)
      [] k = "UDFLongAD" -> UDFLongAD_new(self, a.length, a.blocknum)
      [] k = "UDFLogicalVolumeHeaderDescriptor" -> UDFLogicalVolumeHeaderDescriptor_new(self)
      [] k = "UDFLogicalVolumeImplementationUse" -> UDFLogicalVolumeImplementationUse_new(self)
      [] k = "UDFICBTag" -> UDFICBTag_new(self)

\* obj.set_location(...) with a = [new_location, tag_location, main_vd_extent,
\* reserve_vd_extent].  A class without the method raises AttributeError at
\* the attribute lookup, whatever the object's state.
DoSetLocation(k, self, a) ==
    CASE k = "UDFAnchorVolumeStructure" ->
             UDFAnchorVolumeStructure_set_location(self, a.new_location, a.main_vd_extent,
                                                   a.reserve_vd_extent)
      [] k = "UDFTerminatingDescriptor" ->
             UDFTerminatingDescriptor_set_location(self, a.new_location, a.tag_location)
      [] k = "UDFFileEntry" -> UDFFileEntry_set_location(self, a.new_location, a.tag_location)
      [] k = "UDFFileIdentifierDescriptor" ->
             UDFFileIdentifierDescriptor_set_location(self, a.new_location, a.tag_location)
      [] k \in HasSetLocation \ {"UDFAnchorVolumeStructure", "UDFTerminatingDescriptor",
                                 "UDFFileEntry", "UDFFileIdentifierDescriptor"} ->
             set_location(self, a.new_location)
      [] OTHER -> Raise(self, AttributeError, "set_location")

(***************************************************************************)
(* The arguments the methods are called with                               *)
(***************************************************************************)

\* The largest location given to set_location and to the dependent-field setters.
MaxLoc == 2

\* The longest allocation-descriptor list a File Entry is let to grow to.
MaxAllocDescs == 2

\* The number of clock readings new() may see.
MaxClock == 1

Locs == 1..MaxLoc

\* What the clock gives when new() reads it.
Clocks ==
    {[tz |-> (-300) * n, tm_year |-> 2017 + n, tm_mon |-> n, tm_mday |-> 20 + n,
      tm_hour |-> 11 + n, tm_min |-> 58, tm_sec |-> n] : n \in 1..MaxClock}

DefaultNew ==
    [clock |-> [tz |-> 60, tm_year |-> 2018, tm_mon |-> 7, tm_mday |-> 23,
                tm_hour |-> 13, tm_min |-> 5, tm_sec |-> 59],
     random64 |-> <<8, 7, 6, 5, 4, 3, 2, 250>>, tag_ident |-> 8, flags |-> 0,
     identifier |-> NoBytes, suffix |-> NoBytes, length |-> 2048, blocknum |-> 2,
     isdir |-> FALSE, isparent |-> FALSE]

\* The arguments new() is called with, per class.
NewArgs(k) ==
    CASE k \in {"UDFPrimaryVolumeDescriptor", "UDFLogicalVolumeIntegrityDescriptor",
                "UDFFileSetDescriptor", "UDFFileEntry", "UDFTimestamp"} ->
             {[DefaultNew EXCEPT !.clock = c] : c \in Clocks}
      [] k = "UDFFileIdentifierDescriptor" ->
             {DefaultNew, [DefaultNew EXCEPT !.isdir = TRUE], [DefaultNew EXCEPT !.isparent = TRUE]}
      [] k = "UDFEntityID" ->
             {DefaultNew,
              [DefaultNew EXCEPT !.flags = 2, !.identifier = Bytes(Ascii.PlusNSR02)],
              [DefaultNew EXCEPT !.identifier = Bytes(Ascii.UDFLVInfo), !.suffix = Bytes(<<2, 1>>)],
              [DefaultNew EXCEPT !.identifier = Bytes(Ascii.OSTAUnicode)],
              [DefaultNew EXCEPT !.identifier = Bytes(Ascii.UDFLVInfo),
                                 !.suffix = Bytes(<<1, 2, 3, 4, 5, 6, 7, 8, 9>>)],
              [DefaultNew EXCEPT !.identifier = Bytes(Slice(Ascii.OSTAUnicode, 1, 24)),
                                 !.suffix = Bytes(<<1, 2, 3, 4, 5, 6, 7, 8>>)]}
      [] k = "UDFLongAD" -> {DefaultNew, [DefaultNew EXCEPT !.length = 0, !.blocknum = 0]}
      [] k = "UDFTag" -> {DefaultNew, [DefaultNew EXCEPT !.tag_ident = 261]}
      [] OTHER -> {DefaultNew}

\* The arguments set_location is called with, per class.
SetLocationArgs(k) ==
    {[new_location |-> n,
      tag_location |-> IF k = "UDFTerminatingDescriptor" THEN (IF same THEN None ELSE 0)
                       ELSE IF k \in {"UDFFileEntry", "UDFFileIdentifierDescriptor"}
                            THEN (IF same THEN n ELSE 0)
                       ELSE None,
      main_vd_extent |-> IF k = "UDFAnchorVolumeStructure" THEN (IF same THEN 32 ELSE 33)
                         ELSE None,
      reserve_vd_extent |-> IF k = "UDFAnchorVolumeStructure" THEN (IF same THEN 48 ELSE 288)
                            ELSE None] :
        n \in Locs, same \in BOOLEAN}

(***************************************************************************)
(* The buffers parse is called with: what the file itself writes for a     *)
(* new descriptor, and that image with bytes changed by whoever wrote the  *)
(* disk, the tag sealed again or not.                                      *)
(***************************************************************************)

\* The sequence as a tuple.
Tuple(s) == SubSeq(s, 1, Len(s))

\* data with the bytes at offset off replaced.
Patch(data, off, bytes) ==
    Tuple([i \in 1..Len(data) |->
              IF i > off /\ i <= off + Len(bytes) THEN bytes[i - off] ELSE data[i]])

\* b ^ 1
XorOne(b) == IF b % 2 = 0 THEN b + 1 ELSE b - 1

\* The tag's checksum byte written as a UDF writer computes it.
SealChecksum(data) == Patch(data, 4, <<(SumBytes(data, 1, 16) - data[5]) % 256>>)

\* desc_crc_length = L and desc_crc over the L bytes after the tag, then the checksum.
SealTag(data, L) ==
    SealChecksum(Patch(data, 8, PackInt(crc_ccitt(Slice(data, 16, 16 + L)), 2) \o PackInt(L, 2)))

\* Where the images say they are: tag_location, and the start of the
\* partition for the descriptors whose tag_location is relative to it.
Image == [loc |-> 5, start |-> 3]

\* What record() gives for a new descriptor of class k placed at Image.loc.
\* The object with its tag at the place of the images.
Located(k, o) == IF k \in Tagged THEN SetTagLocation(o, TagSlot(k), Image.loc) ELSE o

BaseImage(k) == DoRecord(k, Located(k, DoNew(k, Fresh(k), DefaultNew).obj), <<>>).ret

\* Bytes a writer may set that parse accepts: [off, bytes, tail, L] is the
\* image base patched at off, with tail appended, sealed over L body bytes.
Accepted(k, base) ==
    CASE k = "UDFAnchorVolumeStructure" -> [off |-> 40, bytes |-> <<9>>, tail |-> <<>>, L |-> 496]
      [] k = "UDFPrimaryVolumeDescriptor" -> [off |-> 24, bytes |-> <<8, 68>>, tail |-> <<>>, L |-> 400]
      [] k = "UDFImplementationUseVolumeDescriptor" ->
             [off |-> 16, bytes |-> <<7>>, tail |-> <<>>, L |-> 0]
      [] k = "UDFPartitionVolumeDescriptor" -> [off |-> 356, bytes |-> <<9>>, tail |-> <<>>, L |-> 496]
      [] k = "UDFLogicalVolumeDescriptor" -> [off |-> 16, bytes |-> <<7>>, tail |-> <<>>, L |-> 16]
      [] k = "UDFUnallocatedSpaceDescriptor" -> [off |-> 16, bytes |-> <<7>>, tail |-> <<9, 9>>, L |-> 8]
      [] k = "UDFTerminatingDescriptor" -> [off |-> 16, bytes |-> <<9>>, tail |-> <<>>, L |-> 496]
      [] k = "UDFLogicalVolumeIntegrityDescriptor" ->
             [off |-> 48, bytes |-> <<9>>, tail |-> <<>>, L |-> 118]
      [] k = "UDFFileSetDescriptor" -> [off |-> 464, bytes |-> <<9>>, tail |-> <<>>, L |-> 496]
      [] k = "UDFFileEntry" ->
             [off |-> 168, bytes |-> PackInt(4, 4) \o PackInt(8, 4),
              tail |-> <<1, 2, 3, 4>> \o PackInt(2048, 4) \o PackInt(9, 4), L |-> 168]
      [] k = "UDFFileIdentifierDescriptor" ->
             [off |-> 19, bytes |-> <<1>> \o Slice(base, 20, 38) \o <<65, 7>>,
              tail |-> <<>>, L |-> 24]
      [] k \in VolumeStructures -> [off |-> 7, bytes |-> <<9>>, tail |-> <<>>, L |-> 0]
      [] k = "UDFTimestamp" -> [off |-> 9, bytes |-> <<5>>, tail |-> <<>>, L |-> 0]
      [] k = "UDFLongAD" -> [off |-> 10, bytes |-> <<7>>, tail |-> <<>>, L |-> 0]
      [] k = "UDFLogicalVolumeHeaderDescriptor" -> [off |-> 8, bytes |-> <<9>>, tail |-> <<>>, L |-> 0]
      [] k = "UDFEntityID" -> [off |-> 0, bytes |-> <<2>>, tail |-> <<>>, L |-> 0]
      [] OTHER -> [off |-> 0, bytes |-> <<>>, tail |-> <<>>, L |-> 0]

\* Bytes parse rejects after the tag has passed: [off, bytes].
Rejected(k) ==
    CASE k = "UDFPrimaryVolumeDescriptor" -> [off |-> 56, bytes |-> <<2>>]
      [] k = "UDFImplementationUseVolumeDescriptor" -> [off |-> 21, bytes |-> <<43>>]
      [] k = "UDFPartitionVolumeDescriptor" -> [off |-> 24, bytes |-> <<0>>]
      [] k = "UDFLogicalVolumeDescriptor" -> [off |-> 212, bytes |-> <<0, 2>>]
      [] k = "UDFUnallocatedSpaceDescriptor" -> [off |-> 20, bytes |-> <<1>>]
      [] k = "UDFLogicalVolumeIntegrityDescriptor" -> [off |-> 28, bytes |-> <<2>>]
      [] k = "UDFFileSetDescriptor" -> [off |-> 28, bytes |-> <<2>>]
      [] k = "UDFFileEntry" -> [off |-> 50, bytes |-> <<1>>]
      [] k = "UDFFileIdentifierDescriptor" -> [off |-> 16, bytes |-> <<2>>]
      [] k \in VolumeStructures -> [off |-> 6, bytes |-> <<2>>]
      [] k = "UDFTimestamp" -> [off |-> 4, bytes |-> <<13>>]
      [] k = "UDFPartitionMap" -> [off |-> 0, bytes |-> <<2>>]
      [] k = "UDFICBTag" -> [off |-> 4, bytes |-> <<5>>]
      [] k = "UDFPartitionHeaderDescriptor" -> [off |-> 4, bytes |-> <<1>>]
      [] OTHER -> [off |-> 0, bytes |-> <<9>>]

\* A call of parse: the class, the buffer, the extent, the start of the
\* partition and, for the tag, the bytes to compute the CRC over.
Input(k, data, crc_bytes, shift) ==
    [kind |-> k, data |-> Tuple(data), crc_bytes |-> Tuple(crc_bytes),
     extent |-> (IF k \in TakesStartExtent THEN Image.loc + Image.start ELSE Image.loc) + shift,
     start |-> IF k \in TakesStartExtent THEN Image.start ELSE 0]

\* The buffers for a descriptor that carries a tag, from its image base: the
\* image; an image with accepted bytes a; a wrong checksum; a wrong CRC;
\* rejected bytes r under a good tag; a buffer shorter than the format; the
\* image read at another extent.
TaggedFrom(k, base, a, r) ==
    << Input(k, base, <<>>, 0),
       Input(k, SealTag(Patch(base, a.off, a.bytes) \o a.tail, a.L), <<>>, 0),
       Input(k, Patch(base, 4, <<XorOne(base[5])>>), <<>>, 0),
       Input(k, Patch(base, 16, <<XorOne(base[17])>>), <<>>, 0),
       Input(k, SealTag(Patch(base, r.off, r.bytes), UnpackFrom(base, 10, 2)), <<>>, 0),
       Input(k, Slice(base, 0, 20), <<>>, 0),
       Input(k, base, <<>>, 1) >>

\* The buffers for a class without a tag: the image, accepted bytes, rejected
\* bytes, a buffer one byte short.
PlainFrom(k, base, a, r) ==
    << Input(k, base, <<>>, 0),
       Input(k, Patch(base, a.off, a.bytes), <<>>, 0),
       Input(k, Patch(base, r.off, r.bytes), <<>>, 0),
       Input(k, Slice(base, 0, Len(base) - 1), <<>>, 0) >>

\* The calls of UDFTag.parse, from the tag and the body of an image: the tag
\* with its body, and each way the tag's checks fail, alone and together.
TagFrom(k, tag, body, badsum, short) ==
    << Input(k, tag, body, 0),
       Input(k, SealTag(Patch(tag \o body, 2, <<3>>), 0), <<>>, 0),
       Input(k, badsum, body, 0),
       Input(k, badsum, Patch(body, 0, <<XorOne(body[1])>>), 0),
       Input(k, badsum, short, 0),
       Input(k, Patch(badsum, 5, <<1>>), body, 0),
       Input(k, tag, short, 0),
       Input(k, SealChecksum(Patch(tag, 8, PackInt(crc_ccitt(short), 2))), short, 0),
       Input(k, SealChecksum(Patch(tag, 5, <<1>>)), body, 0),
       Input(k, tag, body, 1),
       Input(k, SealChecksum(Patch(tag, 2, <<1>>)), body, 0),
       Input(k, tag, Patch(body, 0, <<XorOne(body[1])>>), 0),
       Input(k, Slice(tag, 0, 15), body, 0) >>

\* More buffers for the two descriptors whose CRC window is fixed: a CRC
\* length past the window, and, for the File Entry, an allocation-descriptor
\* length past the end of the buffer and one of 12 with 12 bytes present.
WindowFrom(lvid, fe, ad) ==
    << Input("UDFLogicalVolumeIntegrityDescriptor", SealTag(lvid, 200), <<>>, 0),
       Input("UDFFileEntry", SealTag(Patch(fe, 172, PackInt(16, 4)) \o ad \o ad, 176), <<>>, 0),
       Input("UDFFileEntry", SealTag(Patch(fe, 172, PackInt(16, 4)) \o ad, 168), <<>>, 0),
       Input("UDFFileEntry", SealTag(Patch(fe, 172, PackInt(12, 4)) \o ad \o <<1, 2, 3, 4>>, 168),
             <<>>, 0) >>

\* More buffers for the File Identifier Descriptor, from its image: a
\* five-byte identifier and its padding; the same header with the buffer
\* ending after the 38 fixed bytes, under a tag whose CRC covers those; three
\* bytes of implementation use and a two-byte identifier.
FidFrom(fid) ==
    << Input("UDFFileIdentifierDescriptor",
             SealTag(Patch(Slice(fid, 0, 38), 19, <<5>>) \o <<72, 69, 76, 76, 79>> \o Zeros(1), 28),
             <<>>, 0),
       Input("UDFFileIdentifierDescriptor",
             SealTag(Patch(Slice(fid, 0, 38), 19, <<5>>), 22), <<>>, 0),
       Input("UDFFileIdentifierDescriptor",
             SealTag(Patch(Patch(Slice(fid, 0, 38), 19, <<2>>), 36, PackInt(3, 2))
                     \o <<1, 2, 3, 65, 66>> \o Zeros(1), 28),
             <<>>, 0) >>

\* The 12-bit values of the timezone field at the edges of what parse takes:
\* -2048, 1441, 2047, -1441, -2047, 1440, -1440, in two's complement.
TzEdges == <<2048, 1441, 2047, 2655, 2049, 1440, 2656>>

\* More buffers for the Timestamp, from its image: a local-time stamp with
\* each of the timezones of TzEdges.
TzFrom(ts) ==
    [n \in 1..Len(TzEdges) |->
        Input("UDFTimestamp", Patch(ts, 0, <<TzEdges[n] % 256, 16 + (TzEdges[n] \div 256)>>),
              <<>>, 0)]

\* Timestamps of other types than local time, as [tz, timetype] with tz in
\* 12-bit two's complement: UTC at 0, type 15 at -1, type 2 at -2047.
TypeEdges == << <<0, 0>>, <<4095, 15>>, <<2049, 2>> >>

\* More buffers for the Timestamp, from its image: each of TypeEdges.
TypeFrom(ts) ==
    [n \in 1..Len(TypeEdges) |->
        Input("UDFTimestamp",
              Patch(ts, 0, <<TypeEdges[n][1] % 256, 16 * TypeEdges[n][2] + (TypeEdges[n][1] \div 256)>>),
              <<>>, 0)]

\* The image rec filled with zeros to one sector of 2048 bytes, under a tag
\* whose CRC is over the whole sector after the tag.
Sector(rec) == SealTag(rec \o Zeros(2048 - Len(rec)), 2032)

\* Sectors for the Logical Volume Integrity Descriptor and the File Entry,
\* from their images.
SectorFrom(lvid, fe) ==
    << Input("UDFLogicalVolumeIntegrityDescriptor", Sector(lvid), <<>>, 0),
       Input("UDFFileEntry", Sector(fe), <<>>, 0) >>

\* Where the constants of the Primary Volume Descriptor sit in its buffer,
\* each with a value that is not the constant: vol_seqnum, max_vol_seqnum,
\* interchange_level, max_interchange_level, character_set_list,
\* max_character_set_list, flags, and the last of the 22 reserved bytes.
PvdDeviations ==
    << [off |-> 56, bytes |-> <<2>>], [off |-> 58, bytes |-> <<2>>],
       [off |-> 60, bytes |-> <<3>>], [off |-> 62, bytes |-> <<3>>],
       [off |-> 64, bytes |-> <<0>>], [off |-> 68, bytes |-> <<0, 1>>],
       [off |-> 488, bytes |-> <<1>>], [off |-> 511, bytes |-> <<1>>] >>

\* More buffers for the Primary Volume Descriptor, from its image: each of
\* PvdDeviations under a tag that is valid for the bytes.
PvdFrom(pvd) ==
    [n \in 1..Len(PvdDeviations) |->
        Input("UDFPrimaryVolumeDescriptor",
              SealTag(Patch(pvd, PvdDeviations[n].off, PvdDeviations[n].bytes), 496), <<>>, 0)]

\* One more buffer for the Terminating Descriptor, from its image: the tag
\* says the extent the descriptor is read at, not the block in the partition.
AbsoluteFrom(term) ==
    << Input("UDFTerminatingDescriptor",
             SealChecksum(Patch(term, 12, PackInt(Image.loc + Image.start, 4))), <<>>, 0) >>

\* The buffers for the class k whose image is base; a tag's are cut from the
\* image of an Unallocated Space Descriptor.
InputsOf(k, base) ==
    IF k \in Tagged THEN TaggedFrom(k, base, Accepted(k, base), Rejected(k))
    ELSE IF k = "UDFTag"
         THEN TagFrom(k, Slice(base, 0, 16), SliceFrom(base, 16),
                      Patch(Slice(base, 0, 16), 4, <<XorOne(base[5])>>), Slice(base, 16, 20))
    ELSE PlainFrom(k, base, Accepted(k, base), Rejected(k))

KindSeq ==
    << "BEAVolumeStructure", "NSRVolumeStructure", "TEAVolumeStructure",
       "UDFAnchorVolumeStructure", "UDFPrimaryVolumeDescriptor",
       "UDFImplementationUseVolumeDescriptor", "UDFPartitionVolumeDescriptor",
       "UDFLogicalVolumeDescriptor", "UDFUnallocatedSpaceDescriptor",
       "UDFTerminatingDescriptor", "UDFLogicalVolumeIntegrityDescriptor",
       "UDFFileSetDescriptor", "UDFFileEntry", "UDFFileIdentifierDescriptor",
       "UDFTag", "UDFTimestamp", "UDFEntityID",
       "UDFImplementationUseVolumeDescriptorImplementationUse",
       "UDFPartitionHeaderDescriptor", "UDFPartitionMap", "UDFLongAD",
       "UDFLogicalVolumeHeaderDescriptor", "UDFLogicalVolumeImplementationUse",
       "UDFICBTag" >>

RECURSIVE InputsFrom(_)
InputsFrom(n) ==
    IF n > Len(KindSeq)
    THEN WindowFrom(BaseImage("UDFLogicalVolumeIntegrityDescriptor"), BaseImage("UDFFileEntry"),
                    PackInt(2048, 4) \o PackInt(9, 4))
         \o FidFrom(BaseImage("UDFFileIdentifierDescriptor"))
         \o TzFrom(BaseImage("UDFTimestamp"))
         \o PvdFrom(BaseImage("UDFPrimaryVolumeDescriptor"))
         \o AbsoluteFrom(BaseImage("UDFTerminatingDescriptor"))
         \o TypeFrom(BaseImage("UDFTimestamp"))
         \o SectorFrom(BaseImage("UDFLogicalVolumeIntegrityDescriptor"), BaseImage("UDFFileEntry"))
    ELSE InputsOf(KindSeq[n],
                  BaseImage(IF KindSeq[n] = "UDFTag" THEN "UDFUnallocatedSpaceDescriptor"
                            ELSE KindSeq[n]))
         \o InputsFrom(n + 1)

\* Every call of parse the model makes.
InputSeq == InputsFrom(1)

\* The bytes UDFTag.record is given to compute the CRC over.
RecordArgs(k) ==
    IF k = "UDFTag" THEN {<<>>, <<1, 2, 3>>, <<49, 50, 51, 52, 53, 54, 55, 56, 57>>} ELSE {<<>>}

(***************************************************************************)
(* One object and the calls made on it                                     *)
(*                                                                         *)
(*   kind  the object's class                                              *)
(*   obj   the object's attributes                                         *)
(*   op    the method called last, arg its integer arguments               *)
(*   err   the exception the call raised (NoError: it returned),           *)
(*   msg   its message, ret what the call returned                         *)
(*   hist  how the object was initialized (how), the buffer the last parse *)
(*         of the uninitialized object read (input, an index of InputSeq), *)
(*         the new_location of the last set_location that returned         *)
(*         (lastLoc), whether a setter has returned (dirty), whether the   *)
(*         object was initialized when the last call was made (was)        *)
(***************************************************************************)

Init ==
    /\ kind \in Kinds
    /\ obj = Fresh(kind)
    /\ op = "init"
    /\ arg = <<>>
    /\ err = NoError
    /\ msg = ""
    /\ ret = None
    /\ hist = [how |-> "none", input |-> 0, lastLoc |-> None, dirty |-> FALSE, was |-> FALSE]

\* The call returned or raised r.
Call(r, o, a, h) ==
    /\ obj' = r.obj
    /\ op' = o
    /\ arg' = a
    /\ err' = r.err
    /\ msg' = r.msg
    /\ ret' = r.ret
    /\ hist' = [h EXCEPT !.was = obj["_initialized"]]
    /\ UNCHANGED kind

\* obj.parse(...) with the buffer and the extents of InputSeq[n].
ParseCall(n, i) ==
    LET r == DoParse(kind, obj, i)
    IN /\ i.kind = kind
       /\ kind = "UDFFileEntry" => Len(r.obj["alloc_descs"]) <= MaxAllocDescs
       /\ Call(r, "parse", <<i.extent, i.start>>,
               IF obj["_initialized"] THEN hist
               ELSE IF r.err = NoError THEN [hist EXCEPT !.how = "parse", !.input = n]
               ELSE [hist EXCEPT !.input = n])

Parse == \E n \in 1..Len(InputSeq) : ParseCall(n, InputSeq[n])

New ==
    \E a \in NewArgs(kind) :
        LET r == DoNew(kind, obj, a)
        IN Call(r, "new",
                IF kind = "UDFEntityID" THEN <<a.flags, a.identifier, a.suffix>> ELSE <<>>,
                IF r.err = NoError THEN [hist EXCEPT !.how = "new"] ELSE hist)

Record ==
    \E c \in RecordArgs(kind) :
        Call(DoRecord(kind, obj, c), "record", c, hist)

ExtentLocation ==
    /\ kind \in Descriptors
    /\ Call(extent_location(obj), "extent_location", <<>>, hist)

SetLocation ==
    /\ kind \in Tagged
    /\ \E a \in SetLocationArgs(kind) :
        LET r == DoSetLocation(kind, obj, a)
        IN Call(r, "set_location",
                <<a.new_location, a.tag_location, a.main_vd_extent, a.reserve_vd_extent>>,
                IF r.err = NoError
                THEN [hist EXCEPT !.lastLoc = a.new_location, !.dirty = TRUE]
                ELSE hist)

SetStartLocation ==
    /\ kind = "UDFPartitionVolumeDescriptor"
    /\ \E n \in Locs :
        LET r == UDFPartitionVolumeDescriptor_set_start_location(obj, n)
        IN Call(r, "set_start_location", <<n>>,
                IF r.err = NoError THEN [hist EXCEPT !.dirty = TRUE] ELSE hist)

SetIntegrityLocation ==
    /\ kind = "UDFLogicalVolumeDescriptor"
    /\ \E n \in Locs :
        LET r == UDFLogicalVolumeDescriptor_set_integrity_location(obj, n)
        IN Call(r, "set_integrity_location", <<n>>,
                IF r.err = NoError THEN [hist EXCEPT !.dirty = TRUE] ELSE hist)

IsDir ==
    /\ kind = "UDFFileIdentifierDescriptor"
    /\ Call(is_dir(obj), "is_dir", <<>>, hist)

IsParent ==
    /\ kind = "UDFFileIdentifierDescriptor"
    /\ Call(is_parent(obj), "is_parent", <<>>, hist)

Next ==
    \/ Parse
    \/ New
    \/ Record
    \/ ExtentLocation
    \/ SetLocation
    \/ SetStartLocation
    \/ SetIntegrityLocation
    \/ IsDir
    \/ IsParent

Spec == Init /\ [][Next]_vars

(***************************************************************************)
(* Properties                                                              *)
(***************************************************************************)

\* C1, as stated: for each of the fourteen descriptor classes and every
\* buffer B that parse accepts on a fresh object, record() on the object as
\* parse left it returns exactly B.
C1_RoundTrip ==
    (/\ kind \in Descriptors
     /\ op = "record"
     /\ hist.how = "parse"
     /\ ~hist.dirty
     /\ obj = DoParse(kind, Fresh(kind), InputSeq[hist.input]).obj)
        => (err = NoError /\ ret = InputSeq[hist.input].data)

\* C2: record() of an initialized descriptor that carries a tag, and of an
\* initialized tag, returns bytes whose byte at offset 4 is the sum of the
\* 16 tag bytes less that byte, modulo 256.
C2_TagChecksum ==
    (kind \in Tagged \cup {"UDFTag"} /\ op = "record" /\ hist.was)
        => (/\ err = NoError
            /\ Len(ret) >= 16
            /\ ret[5] = (SumBytes(ret, 1, 16) - ret[5]) % 256)

\* C2 happens: a descriptor moved by set_location is recorded, with a
\* checksum that is not 0.
C2_Witness ==
    /\ kind \in Tagged
    /\ op = "record"
    /\ err = NoError
    /\ hist.lastLoc # None
    /\ ret[5] # 0

\* C3: record() of an initialized descriptor that carries a tag returns bytes
\* whose desc_crc_length L is at most the number of bytes after the tag and
\* whose desc_crc is the CCITT CRC of the first L bytes after the tag.
C3_TagCrc ==
    (kind \in Tagged /\ op = "record" /\ hist.was)
        => (/\ err = NoError
            /\ Len(ret) >= 16
            /\ UnpackFrom(ret, 10, 2) <= Len(ret) - 16
            /\ crc_ccitt(Slice(ret, 16, 16 + UnpackFrom(ret, 10, 2))) = UnpackFrom(ret, 8, 2))

\* C3 happens: a descriptor is recorded whose CRC covers some but not all of
\* the bytes after the tag.
C3_Witness ==
    /\ kind \in Tagged
    /\ op = "record"
    /\ err = NoError
    /\ UnpackFrom(ret, 10, 2) > 0
    /\ UnpackFrom(ret, 10, 2) < Len(ret) - 16

\* C4, as stated: set_location(N) on an initialized descriptor that carries a
\* tag returns, and the record() that follows returns bytes whose
\* tag_location is N, the reported location being N.
C4_Relocation ==
    [][(/\ kind \in Tagged
        /\ op = "set_location"
        /\ hist.was
        /\ kind = "UDFTerminatingDescriptor" => arg[2] = None
        /\ op' = "record")
           => (/\ err = NoError
               /\ err' = NoError
               /\ UnpackFrom(ret', 12, 4) = arg[1]
               /\ extent_location(obj').ret = arg[1])]_vars

\* C5: parse and new on an initialized object, and every other method the
\* class has on an object that is not initialized, raise
\* PyCdlibInternalError and leave the object as it was.
C5_StateErrors ==
    [][(\/ op' \in {"parse", "new"} /\ obj["_initialized"]
        \/ /\ op' \in {"record", "extent_location", "set_location", "set_start_location",
                       "set_integrity_location", "is_dir", "is_parent"}
           /\ ~obj["_initialized"]
           /\ op' = "set_location" => kind \in HasSetLocation)
           => (err' = InternalError /\ obj' = obj)]_vars

\* C5 happens: parse is refused on an object that new() initialized.
C5_Witness ==
    /\ op = "parse"
    /\ hist.was
    /\ hist.how = "new"
    /\ err = InternalError

\* C6, as stated: a parse or a UDFEntityID.new that fails leaves the object
\* uninitialized, record() and extent_location() then raise
\* PyCdlibInternalError, and a parse that follows on the same object, of a
\* buffer that a fresh object accepts, returns and gives the object the state
\* the fresh object gets.
C6_NoPartialSuccess ==
    /\ (op \in {"parse", "new"} /\ ~hist.was /\ err # NoError) => ~obj["_initialized"]
    /\ (op \in {"record", "extent_location"} /\ ~hist.was) => err = InternalError
    /\ (op = "parse" /\ ~hist.was
        /\ DoParse(kind, Fresh(kind), InputSeq[hist.input]).err = NoError)
           => (/\ err = NoError
               /\ obj = DoParse(kind, Fresh(kind), InputSeq[hist.input]).obj)

\* C7, as stated: extent_location() on a descriptor that new() initialized
\* and that set_location has not moved returns a sector index.
C7_LocationAfterNew ==
    (kind \in Descriptors /\ op = "extent_location" /\ hist.how = "new" /\ hist.lastLoc = None)
        => (err = NoError /\ ret >= 0)

\* C8: a descriptor parsed at extent E keeps orig_extent_loc = E, and after
\* any calls extent_location() returns what the last set_location that was
\* made was given, or E if none was made; so neither record() nor the setters
\* of the dependent fields change it.
C8_ReportedLocation ==
    (kind \in Descriptors /\ hist.how = "parse")
        => (/\ obj["orig_extent_loc"] = InputSeq[hist.input].extent
            /\ extent_location(obj).err = NoError
            /\ extent_location(obj).ret = IF hist.lastLoc = None
                                          THEN InputSeq[hist.input].extent
                                          ELSE hist.lastLoc
            /\ op = "extent_location" => (err = NoError /\ ret = extent_location(obj).ret))

\* C8 happens: extent_location() returns the location set_location was
\* given, which is not the extent the descriptor was parsed at.
C8_Witness ==
    /\ kind \in Descriptors
    /\ hist.how = "parse"
    /\ op = "extent_location"
    /\ hist.lastLoc # None
    /\ ret = hist.lastLoc
    /\ ret # InputSeq[hist.input].extent

\* C9: UDFTag.parse of a 16-byte tag whose reserved byte is 0 and whose byte
\* 4 is not the checksum of the tag raises PyCdlibInvalidISO "Tag checksum
\* does not match!" and leaves the tag uninitialized, whatever the CRC and
\* the length of crc_bytes are.
C9_ChecksumFirst ==
    (/\ kind = "UDFTag"
     /\ op = "parse"
     /\ ~hist.was
     /\ Len(InputSeq[hist.input].data) = 16
     /\ InputSeq[hist.input].data[6] = 0
     /\ InputSeq[hist.input].data[5] #
            (SumBytes(InputSeq[hist.input].data, 1, 16) - InputSeq[hist.input].data[5]) % 256)
        => (/\ err = InvalidISO
            /\ msg = "Tag checksum does not match!"
            /\ ~obj["_initialized"])

\* C9 happens: the checksum is wrong and crc_bytes is shorter than
\* desc_crc_length.
C9_Witness ==
    /\ kind = "UDFTag"
    /\ op = "parse"
    /\ ~hist.was
    /\ Len(InputSeq[hist.input].data) = 16
    /\ InputSeq[hist.input].data[6] = 0
    /\ InputSeq[hist.input].data[5] #
           (SumBytes(InputSeq[hist.input].data, 1, 16) - InputSeq[hist.input].data[5]) % 256
    /\ Len(InputSeq[hist.input].crc_bytes) < UnpackFrom(InputSeq[hist.input].data, 10, 2)
    /\ err = InvalidISO

\* C10: UDFTag.parse of a tag that passes the reserved, checksum, location
\* and version checks, given fewer crc_bytes than desc_crc_length, raises
\* PyCdlibInternalError and leaves the tag uninitialized, whether or not
\* desc_crc is the CRC of the bytes given.
C10_ShortCrcBytes ==
    (/\ kind = "UDFTag"
     /\ op = "parse"
     /\ ~hist.was
     /\ Len(InputSeq[hist.input].data) = 16
     /\ InputSeq[hist.input].data[6] = 0
     /\ InputSeq[hist.input].data[5] =
            (SumBytes(InputSeq[hist.input].data, 1, 16) - InputSeq[hist.input].data[5]) % 256
     /\ UnpackFrom(InputSeq[hist.input].data, 12, 4) = InputSeq[hist.input].extent
     /\ UnpackFrom(InputSeq[hist.input].data, 2, 2) \in {2, 3}
     /\ Len(InputSeq[hist.input].crc_bytes) < UnpackFrom(InputSeq[hist.input].data, 10, 2))
        => (/\ err = InternalError
            /\ msg = "Not enough CRC bytes to compute"
            /\ ~obj["_initialized"])

\* C10 happens: crc_bytes is too short and desc_crc is the CRC of the bytes
\* given.
C10_Witness ==
    /\ kind = "UDFTag"
    /\ op = "parse"
    /\ ~hist.was
    /\ Len(InputSeq[hist.input].data) = 16
    /\ Len(InputSeq[hist.input].crc_bytes) < UnpackFrom(InputSeq[hist.input].data, 10, 2)
    /\ UnpackFrom(InputSeq[hist.input].data, 8, 2) = crc_ccitt(InputSeq[hist.input].crc_bytes)
    /\ err = InternalError

\* C11, as stated: once the module is imported and an object constructed,
\* every entry of the table _tab is in 0..0xFFFF, and its first ten entries
\* are 0x0000, 0x1021, 0x2042, 0x3063, 0x4084, 0x50A5, 0x60C6, 0x70E7,
\* 0x8108, 0x9129.
C11_CrcTable ==
    op = "init" =>
        (/\ \A i \in 1..256 : _tab[i] \in 0..65535
         /\ SubSeq(_tab, 1, 10) =
                <<0, 4129, 8258, 12387, 16516, 20645, 24774, 28903, 33032, 37161>>)

\* What 38 + len_impl_use + len_fi is for the buffer parse was given.
FidUnpadded(data) == 38 + UnpackFrom(data, 36, 2) + UnpackFrom(data, 19, 1)

\* C12, as stated: when UDFFileIdentifierDescriptor.parse returns, the value
\* it returns is a multiple of 4, is 38 + len_impl_use + len_fi rounded up to
\* a multiple of 4, and is the length of the bytes record() then gives.
C12_FidLength ==
    (kind = "UDFFileIdentifierDescriptor" /\ op = "parse" /\ ~hist.was /\ err = NoError)
        => (/\ ret % 4 = 0
            /\ ret >= FidUnpadded(InputSeq[hist.input].data)
            /\ ret <= FidUnpadded(InputSeq[hist.input].data) + 3
            /\ ret = Len(UDFFileIdentifierDescriptor_record(obj).ret))

\* C13, as stated: UDFFileIdentifierDescriptor.parse of a buffer whose len_fi
\* is 5 and whose len_impl_use is 0, when it returns, returns 48.
C13_FidFortyEight ==
    (/\ kind = "UDFFileIdentifierDescriptor"
     /\ op = "parse"
     /\ ~hist.was
     /\ err = NoError
     /\ UnpackFrom(InputSeq[hist.input].data, 19, 1) = 5
     /\ UnpackFrom(InputSeq[hist.input].data, 36, 2) = 0)
        => ret = 48

\* C13, amended: UDFFileIdentifierDescriptor.parse of a buffer whose len_fi
\* is 5 and whose len_impl_use is 0, when it returns, returns 44, which is
\* 38 + 0 + 5 = 43 rounded up to a multiple of 4.
C13_FidFortyFour ==
    (/\ kind = "UDFFileIdentifierDescriptor"
     /\ op = "parse"
     /\ ~hist.was
     /\ err = NoError
     /\ UnpackFrom(InputSeq[hist.input].data, 19, 1) = 5
     /\ UnpackFrom(InputSeq[hist.input].data, 36, 2) = 0)
        => ret = 44

\* C13 happens: a 44-byte descriptor with a five-byte identifier is parsed.
C13_Witness ==
    /\ kind = "UDFFileIdentifierDescriptor"
    /\ op = "parse"
    /\ ~hist.was
    /\ err = NoError
    /\ Len(InputSeq[hist.input].data) = 44
    /\ obj["len_fi"] = 5
    /\ Len(obj["fi"]) = 5
    /\ obj["len_impl_use"] = 0
    /\ ret = 44

\* The timezone a Timestamp buffer holds: the 12 bits made of the low nibble
\* of byte 1 and of byte 0, read as a two's complement number.
TzOf(data) ==
    IF (data[2] % 16) * 256 + data[1] >= 2048
    THEN (data[2] % 16) * 256 + data[1] - 4096
    ELSE (data[2] % 16) * 256 + data[1]

\* The timezones a Timestamp may hold.
TzRange == (-1440..1440) \cup {-2047}

\* C14: a Timestamp that parse initialized holds the timezone of its buffer,
\* which is in -1440..1440 or is -2047; parse of a 12-byte buffer whose
\* timezone is any other value raises PyCdlibInvalidISO "Invalid UDF
\* timezone" and leaves the Timestamp uninitialized.
C14_TimezoneRange ==
    /\ (kind = "UDFTimestamp" /\ hist.how = "parse")
           => (obj["tz"] = TzOf(InputSeq[hist.input].data) /\ obj["tz"] \in TzRange)
    /\ (/\ kind = "UDFTimestamp"
        /\ op = "parse"
        /\ ~hist.was
        /\ Len(InputSeq[hist.input].data) >= 12
        /\ TzOf(InputSeq[hist.input].data) \notin TzRange)
           => (err = InvalidISO /\ msg = "Invalid UDF timezone" /\ ~obj["_initialized"])

\* C14 happens: the buffer holds the timezone -2048 and parse refuses it.
C14_Witness ==
    /\ kind = "UDFTimestamp"
    /\ op = "parse"
    /\ ~hist.was
    /\ TzOf(InputSeq[hist.input].data) = -2048
    /\ err = InvalidISO

\* The Anchor a parse p gave holds the extents M and R and the lengths of o.
AnchorYields(p, o, M, R) ==
    /\ p.err = NoError
    /\ p.obj["_initialized"]
    /\ p.obj["main_vd_extent"] = M
    /\ p.obj["reserve_vd_extent"] = R
    /\ p.obj["main_vd_length"] = o["main_vd_length"]
    /\ p.obj["reserve_vd_length"] = o["reserve_vd_length"]

\* C15: record() that follows set_location(L, M, R) on an Anchor that new()
\* initialized returns bytes whose tag identifier is 2 and whose tag location
\* is L, and a fresh Anchor parses them at extent L into main_vd_extent = M,
\* reserve_vd_extent = R and the lengths of the Anchor recorded.
C15_AnchorRoundTrip ==
    [][(/\ kind = "UDFAnchorVolumeStructure"
        /\ hist.how = "new"
        /\ op = "set_location"
        /\ err = NoError
        /\ op' = "record")
           => (/\ err' = NoError
               /\ UnpackFrom(ret', 0, 2) = 2
               /\ UnpackFrom(ret', 12, 4) = arg[1]
               /\ AnchorYields(UDFAnchorVolumeStructure_parse(NewObject, ret', arg[1]),
                               obj, arg[3], arg[4]))]_vars

\* C15 happens: an Anchor that new() initialized and set_location placed,
\* with extents that are not those of new(), is recorded.
C15_Witness ==
    /\ kind = "UDFAnchorVolumeStructure"
    /\ hist.how = "new"
    /\ hist.lastLoc # None
    /\ op = "record"
    /\ err = NoError
    /\ UnpackFrom(ret, 12, 4) = hist.lastLoc
    /\ UnpackFrom(ret, 20, 4) = 33
    /\ UnpackFrom(ret, 28, 4) = 288

\* C16, as stated: record() of an initialized descriptor of every class but
\* the File Identifier Descriptor returns a positive multiple of 2048 bytes.
C16_SectorSized ==
    (/\ kind \in Descriptors \ {"UDFFileIdentifierDescriptor"}
     /\ op = "record"
     /\ hist.was)
        => (err = NoError /\ Len(ret) > 0 /\ Len(ret) % 2048 = 0)

\* The 16 tag bytes at the head of data pass the checks UDFTag.parse makes
\* before the CRC, at the location loc.
TagHeadPasses(data, loc) ==
    /\ Len(data) >= 16
    /\ data[6] = 0
    /\ data[5] = (SumBytes(data, 1, 16) - data[5]) % 256
    /\ UnpackFrom(data, 12, 4) = loc
    /\ UnpackFrom(data, 2, 2) \in {2, 3}

\* The Logical Volume Integrity Descriptor o with the first of the bytes it
\* writes at body offset 118 and after changed.
TailChanged(o) ==
    Set(o, "logical_volume_impl_use",
        Set(o["logical_volume_impl_use"], "impl_use",
            Patch(o["logical_volume_impl_use"]["impl_use"], 0,
                  <<XorOne(o["logical_volume_impl_use"]["impl_use"][1])>>)))

\* a and b are both returned, differ at offset 16 + 118 and have the same tag.
SameTagOtherTail(a, b) ==
    /\ a.err = NoError
    /\ a.ret[16 + 118 + 1] # b[16 + 118 + 1]
    /\ Slice(a.ret, 0, 16) = Slice(b, 0, 16)

\* C17: record() of an initialized Logical Volume Integrity Descriptor
\* returns a tag whose desc_crc_length is 118 and whose desc_crc is the CRC
\* of the first 118 body bytes, the same tag as the descriptor with another
\* byte at body offset 118 gets; parse raises PyCdlibInternalError on a tag
\* that passes the checks before the CRC and whose desc_crc_length is above
\* 118, and does not reject the CRC of a tag whose desc_crc is the CRC of its
\* first desc_crc_length <= 118 body bytes.
C17_IntegrityWindow ==
    /\ (kind = "UDFLogicalVolumeIntegrityDescriptor" /\ op = "record" /\ hist.was)
           => (/\ err = NoError
               /\ UnpackFrom(ret, 10, 2) = 118
               /\ UnpackFrom(ret, 8, 2) = crc_ccitt(Slice(ret, 16, 16 + 118))
               /\ SameTagOtherTail(UDFLogicalVolumeIntegrityDescriptor_record(TailChanged(obj)), ret))
    /\ (/\ kind = "UDFLogicalVolumeIntegrityDescriptor"
        /\ op = "parse"
        /\ ~hist.was
        /\ Len(InputSeq[hist.input].data) >= 512
        /\ TagHeadPasses(InputSeq[hist.input].data, InputSeq[hist.input].extent))
           => (/\ UnpackFrom(InputSeq[hist.input].data, 10, 2) > 118
                      => (err = InternalError /\ msg = "Not enough CRC bytes to compute")
               /\ (/\ UnpackFrom(InputSeq[hist.input].data, 10, 2) <= 118
                   /\ UnpackFrom(InputSeq[hist.input].data, 8, 2) =
                          crc_ccitt(Slice(InputSeq[hist.input].data, 16,
                                          16 + UnpackFrom(InputSeq[hist.input].data, 10, 2))))
                      => (err # InternalError /\ msg # "Tag CRC does not match!"))

\* C17 happens: a descriptor that parse initialized is recorded, in 496 body
\* bytes with a CRC over 118 of them.
C17_Witness ==
    /\ kind = "UDFLogicalVolumeIntegrityDescriptor"
    /\ op = "record"
    /\ hist.how = "parse"
    /\ err = NoError
    /\ Len(ret) = 512
    /\ UnpackFrom(ret, 10, 2) = 118

\* C18, as stated: record() of an initialized File Entry returns a tag whose
\* desc_crc_length is 168 and whose desc_crc is the CRC of the first 168 body
\* bytes, the window parse verifies.
C18_FileEntryWindow ==
    (kind = "UDFFileEntry" /\ op = "record" /\ hist.was)
        => (/\ err = NoError
            /\ UnpackFrom(ret, 10, 2) = 168
            /\ UnpackFrom(ret, 8, 2) = crc_ccitt(Slice(ret, 16, 16 + 168)))

\* C19, as stated: a File Entry that parse initialized from a fresh object
\* has len_alloc_descs divisible by 8 and holds len_alloc_descs / 8 pairs,
\* and parse does not return on a buffer whose len_alloc_descs is not a
\* multiple of 8.
C19_AllocDescsLength ==
    (/\ kind = "UDFFileEntry"
     /\ op = "parse"
     /\ ~hist.was
     /\ Len(InputSeq[hist.input].data) >= 176
     /\ obj = UDFFileEntry_parse(NewFileEntry, InputSeq[hist.input].data,
                                 InputSeq[hist.input].extent, InputSeq[hist.input].start).obj)
        => (/\ err = NoError
                => (/\ obj["len_alloc_descs"] % 8 = 0
                    /\ Len(obj["alloc_descs"]) * 8 = obj["len_alloc_descs"])
            /\ UnpackFrom(InputSeq[hist.input].data, 172, 4) % 8 # 0 => err # NoError)

\* The optional bytes argument x is given and longer than n.
LongerThan(x, n) == x # NoBytes /\ Len(TheBytes(x)) > n

\* The n bytes the argument x stands for: NULs if it is not given, its bytes
\* followed by NULs if it is.
NulPadded(x, n) == IF x = NoBytes THEN Zeros(n) ELSE PackStr(TheBytes(x), n)

\* C20, as stated: UDFEntityID.new on an uninitialized object raises
\* PyCdlibInvalidInput exactly when the identifier is longer than 23 bytes or
\* the suffix longer than 8; when it returns, the identifier is 23 bytes and
\* the suffix 8 bytes, the argument NUL-padded on the right, and record()
\* returns 32 bytes.
C20_EntityIDBounds ==
    (kind = "UDFEntityID" /\ op = "new" /\ ~hist.was)
        => (/\ err \in {NoError, InvalidInput}
            /\ err = InvalidInput <=> (LongerThan(arg[2], 23) \/ LongerThan(arg[3], 8))
            /\ err = NoError
                   => (/\ obj["identifier"] = NulPadded(arg[2], 23)
                       /\ obj["suffix"] = NulPadded(arg[3], 8)
                       /\ Len(UDFEntityID_record(obj).ret) = 32))

\* The tag at the head of data is one UDFTag.parse takes at extent: the
\* outcome of that parse.
TagOf(data, extent) == UDFTag_parse(NewObject, Slice(data, 0, 16), extent, SliceFrom(data, 16))

\* The constants of the Primary Volume Descriptor as the bytes data hold them.
PvdProfile(data) ==
    /\ UnpackFrom(data, 56, 2) = 1
    /\ UnpackFrom(data, 58, 2) = 1
    /\ UnpackFrom(data, 60, 2) = 2
    /\ UnpackFrom(data, 62, 2) = 2
    /\ UnpackFrom(data, 64, 4) = 1
    /\ UnpackFrom(data, 68, 4) = 1
    /\ UnpackFrom(data, 488, 2) = 0
    /\ Slice(data, 490, 512) = Zeros(22)

\* t is a tag that parsed, with the identifier 1.
PvdTagTaken(t) == t.err = NoError /\ t.obj["tag_ident"] = 1

\* C21: UDFPrimaryVolumeDescriptor.parse of a buffer under a valid tag with
\* the identifier 1 raises PyCdlibInvalidISO and leaves the descriptor
\* uninitialized when one of vol_seqnum, max_vol_seqnum (1),
\* interchange_level, max_interchange_level (2), character_set_list,
\* max_character_set_list (1), flags (0) or the 22 reserved bytes (zero) is
\* another value; record() of an initialized descriptor returns those values.
C21_PrimaryProfile ==
    /\ (/\ kind = "UDFPrimaryVolumeDescriptor"
        /\ op = "parse"
        /\ ~hist.was
        /\ Len(InputSeq[hist.input].data) >= 512
        /\ PvdTagTaken(TagOf(InputSeq[hist.input].data, InputSeq[hist.input].extent))
        /\ ~PvdProfile(InputSeq[hist.input].data))
           => (err = InvalidISO /\ ~obj["_initialized"])
    /\ (kind = "UDFPrimaryVolumeDescriptor" /\ op = "record" /\ hist.was)
           => (err = NoError /\ Len(ret) = 512 /\ PvdProfile(ret))

\* C21 happens: only the last reserved byte is not the constant, and parse
\* refuses the buffer.
C21_Witness ==
    /\ kind = "UDFPrimaryVolumeDescriptor"
    /\ op = "parse"
    /\ ~hist.was
    /\ Len(InputSeq[hist.input].data) >= 512
    /\ InputSeq[hist.input].data[512] = 1
    /\ UnpackFrom(InputSeq[hist.input].data, 68, 4) = 1
    /\ err = InvalidISO
    /\ msg = "UDF Primary Volume Descriptor reserved data not 0"

\* The tag_location the buffer i must hold for parse to take it: the extent,
\* or the block in the partition for the classes that take start_extent.
TagPlace(i) == i.extent - i.start

\* C22: parse of a descriptor at extent E returns only if the tag_location of
\* the buffer is E, or E - S for a Terminating, File Set, File Entry or File
\* Identifier Descriptor read in a partition that starts at S; a buffer the
\* format unpacks with another tag_location raises PyCdlibInvalidISO; after
\* the parse extent_location() returns E and record() emits E - S as the
\* tag_location.
C22_TagLocation ==
    /\ (kind \in Tagged /\ op = "parse" /\ ~hist.was)
           => /\ err = NoError
                     => UnpackFrom(InputSeq[hist.input].data, 12, 4) = TagPlace(InputSeq[hist.input])
              /\ (/\ err # StructError
                  /\ UnpackFrom(InputSeq[hist.input].data, 12, 4) # TagPlace(InputSeq[hist.input]))
                     => (err = InvalidISO /\ ~obj["_initialized"])
    /\ (kind \in Tagged /\ hist.how = "parse" /\ ~hist.dirty)
           => /\ op = "extent_location"
                     => (err = NoError /\ ret = InputSeq[hist.input].extent)
              /\ op = "record"
                     => (err = NoError /\ UnpackFrom(ret, 12, 4) = TagPlace(InputSeq[hist.input]))

\* C22 happens: a Terminating Descriptor whose tag says the extent it is read
\* at, in a partition that does not start at 0, is refused for its location.
C22_Witness ==
    /\ kind = "UDFTerminatingDescriptor"
    /\ op = "parse"
    /\ ~hist.was
    /\ InputSeq[hist.input].start > 0
    /\ UnpackFrom(InputSeq[hist.input].data, 12, 4) = InputSeq[hist.input].extent
    /\ err = InvalidISO
    /\ msg = "Tag location does not match actual location"

\* C23: UDFTimestamp.new on a timestamp that is not initialized sets month to
\* the month of the clock it reads and day to that clock's day of the month.
C23_TimestampDay ==
    (kind = "UDFTimestamp" /\ op = "new" /\ ~hist.was)
        => \E c \in Clocks :
               /\ obj["tz"] = c.tz
               /\ obj["year"] = c.tm_year
               /\ obj["hour"] = c.tm_hour
               /\ obj["month"] = c.tm_mon
               /\ obj["day"] = c.tm_mday

\* The CRC-16 with the polynomial 0x1021 taken one bit at a time, the most
\* significant bit first: one shift of the 16-bit register.
RefShift(crc) == IF crc >= 32768 THEN BitXor((crc * 2) % 65536, 4129) ELSE crc * 2

\* One byte: it is added to the high byte of the register, which is then
\* shifted eight times.
RefByte(crc, c) ==
    RefShift(RefShift(RefShift(RefShift(RefShift(RefShift(RefShift(RefShift(
        BitXor(crc, c * 256)))))))))

RECURSIVE RefLoop(_, _, _)
RefLoop(data, n, crc) == IF n > Len(data) THEN crc ELSE RefLoop(data, n + 1, RefByte(crc, data[n]))

\* The register starts at 0 and nothing is added at the end.
RefCrc(data) == RefLoop(data, 1, 0)

\* The register values the update is compared on.
CrcSamples == {256 * h + l : h, l \in {0, 1, 16, 127, 128, 255}}

\* desc_crc and the bytes it is computed over, in a record.
CrcOf(rec) == UnpackFrom(rec, 8, 2)
CrcBody(rec) == Slice(rec, 16, 16 + UnpackFrom(rec, 10, 2))

\* C24: crc_ccitt gives a value in 0..0xFFFF that is the CRC-16 of the bytes
\* with polynomial 0x1021 and initial value 0, most significant bit first,
\* without a final XOR; one step of the table-driven _update_crc from a
\* register value and a byte is one byte of that CRC.
C24_CrcAlgorithm ==
    /\ op = "init"
           => \A crc \in CrcSamples : \A c \in 0..255 :
                  _update_crc(crc, c) = RefByte(crc, c)
    /\ (kind = "UDFTag" /\ op = "record" /\ err = NoError)
           => /\ CrcOf(ret) \in 0..65535
              /\ CrcOf(ret) = RefCrc(arg)
              /\ crc_ccitt(arg) = CrcOf(ret)
    /\ (kind = "UDFFileIdentifierDescriptor" /\ op = "record" /\ err = NoError)
           => CrcOf(ret) = RefCrc(CrcBody(ret))

\* C24 happens: the tag records the CRC 0x31C3 of the nine characters
\* "123456789".
C24_Witness ==
    /\ kind = "UDFTag"
    /\ op = "record"
    /\ err = NoError
    /\ arg = <<49, 50, 51, 52, 53, 54, 55, 56, 57>>
    /\ CrcOf(ret) = 12739

\* tz as a 12-bit two's complement number.
Tz12(tz) == tz % 4096

\* The Timestamp p, the outcome of a parse, holds the timezone and the type
\* of o.
SameZone(p, o) ==
    /\ p.err = NoError
    /\ p.obj["tz"] = o["tz"]
    /\ p.obj["timetype"] = o["timetype"]

\* C25: record() of a Timestamp whose timezone is in -1440..1440 or is -2047
\* and whose type is in 0..15 puts the low 8 bits of the timezone as a 12-bit
\* two's complement number in byte 0, and the type shifted left by 4 with the
\* high 4 bits of the timezone in byte 1; parse of those bytes gives the
\* same timezone and type.
C25_ZonePacking ==
    (/\ kind = "UDFTimestamp"
     /\ op = "record"
     /\ hist.was
     /\ obj["tz"] \in TzRange
     /\ obj["timetype"] \in 0..15)
        => (/\ err = NoError
            /\ ret[1] = Tz12(obj["tz"]) % 256
            /\ ret[2] = (obj["timetype"] * 16) + (Tz12(obj["tz"]) \div 256)
            /\ SameZone(UDFTimestamp_parse(NewObject, ret), obj))

\* C25 happens: a Timestamp of type 15 with the timezone -1 records 0xFF in
\* both bytes.
C25_Witness ==
    /\ kind = "UDFTimestamp"
    /\ op = "record"
    /\ err = NoError
    /\ obj["tz"] = -1
    /\ obj["timetype"] = 15
    /\ ret[1] = 255
    /\ ret[2] = 255

\* The object p is the object o but for the attributes in fields.
OnlyChanged(o, p, fields) ==
    /\ DOMAIN o \subseteq DOMAIN p
    /\ DOMAIN p \subseteq DOMAIN o \cup fields
    /\ \A f \in DOMAIN o \ fields : p[f] = o[f]

\* The call that was made reports the location, or fails to, as before it.
SameLocation(o, p) ==
    /\ extent_location(p).err = extent_location(o).err
    /\ extent_location(p).ret = extent_location(o).ret

\* C26: Anchor.set_location(L, M, R) sets the reported location and the
\* tag_location to L, main_vd_extent to M and reserve_vd_extent to R and
\* leaves the lengths and every other attribute;
\* Partition.set_start_location(P) changes only part_start_location and
\* LogicalVolume.set_integrity_location(I) only integrity_sequence_extent,
\* so neither changes the reported location or the tag_location; record()
\* called next emits the values that were set.
C26_DependentSetters ==
    [][/\ (kind = "UDFAnchorVolumeStructure" /\ op' = "set_location" /\ err' = NoError)
              => /\ OnlyChanged(obj, obj', {"new_extent_loc", "udf_tag", "main_vd_extent",
                                            "reserve_vd_extent"})
                 /\ OnlyChanged(obj["udf_tag"], obj'["udf_tag"], {"tag_location"})
                 /\ obj'["udf_tag"]["tag_location"] = arg'[1]
                 /\ extent_location(obj').err = NoError
                 /\ extent_location(obj').ret = arg'[1]
                 /\ obj'["main_vd_extent"] = arg'[3]
                 /\ obj'["reserve_vd_extent"] = arg'[4]
                 /\ obj'["main_vd_length"] = obj["main_vd_length"]
                 /\ obj'["reserve_vd_length"] = obj["reserve_vd_length"]
       /\ (op' = "set_start_location" /\ err' = NoError)
              => /\ OnlyChanged(obj, obj', {"part_start_location"})
                 /\ obj'["part_start_location"] = arg'[1]
                 /\ obj'["desc_tag"] = obj["desc_tag"]
                 /\ SameLocation(obj, obj')
       /\ (op' = "set_integrity_location" /\ err' = NoError)
              => /\ OnlyChanged(obj, obj', {"integrity_sequence_extent"})
                 /\ obj'["integrity_sequence_extent"] = arg'[1]
                 /\ obj'["desc_tag"] = obj["desc_tag"]
                 /\ SameLocation(obj, obj')
       /\ (kind = "UDFAnchorVolumeStructure" /\ op = "set_location" /\ err = NoError
           /\ op' = "record")
              => /\ err' = NoError
                 /\ UnpackFrom(ret', 12, 4) = arg[1]
                 /\ UnpackFrom(ret', 20, 4) = arg[3]
                 /\ UnpackFrom(ret', 28, 4) = arg[4]
       /\ (op = "set_start_location" /\ err = NoError /\ op' = "record")
              => (err' = NoError /\ UnpackFrom(ret', 188, 4) = arg[1])
       /\ (op = "set_integrity_location" /\ err = NoError /\ op' = "record")
              => (err' = NoError /\ UnpackFrom(ret', 436, 4) = arg[1])
      ]_vars

\* C26 happens: a Partition Volume Descriptor that was parsed and moved is
\* given a start location, and still reports the location it was moved to.
C26_Witness ==
    /\ kind = "UDFPartitionVolumeDescriptor"
    /\ hist.how = "parse"
    /\ hist.lastLoc # None
    /\ op = "set_start_location"
    /\ err = NoError
    /\ obj["part_start_location"] = arg[1]
    /\ arg[1] # hist.lastLoc
    /\ extent_location(obj).ret = hist.lastLoc
    /\ obj["desc_tag"]["tag_location"] = hist.lastLoc

\* C27, as stated: record() of an initialized File Entry returns the 176
\* bytes of the header, then the len_extended_attrs bytes of the extended
\* attributes, then len_alloc_descs bytes of allocation descriptors, in all
\* 176 + len_extended_attrs + len_alloc_descs bytes.
C27_FileEntryLayout ==
    (kind = "UDFFileEntry" /\ op = "record" /\ hist.was)
        => (/\ err = NoError
            /\ Len(ret) = 176 + obj["len_extended_attrs"] + obj["len_alloc_descs"]
            /\ UnpackFrom(ret, 168, 4) = obj["len_extended_attrs"]
            /\ UnpackFrom(ret, 172, 4) = obj["len_alloc_descs"]
            /\ Slice(ret, 176, 176 + obj["len_extended_attrs"]) = obj["extended_attrs"])

\* C28, as stated: parse of a descriptor that is not initialized, given a
\* buffer of one sector of 2048 bytes, returns or raises PyCdlibInvalidISO;
\* it does not raise PyCdlibInternalError, whatever desc_crc_length the
\* buffer holds.
C28_NoInternalError ==
    (/\ kind \in Descriptors
     /\ op = "parse"
     /\ ~hist.was
     /\ Len(InputSeq[hist.input].data) = 2048)
        => err \in {NoError, InvalidISO}

\* C29: an object that is initialized stays initialized whatever is called
\* on it, and a parse or new call returns only on an object that is not
\* initialized and leaves it initialized; so at most one parse or new call
\* made on an object returns.
C29_InitializedOnce ==
    [][/\ obj["_initialized"] => obj'["_initialized"]
       /\ (op' \in {"parse", "new"} /\ err' = NoError)
              => (~obj["_initialized"] /\ obj'["_initialized"])
       /\ (op' \in {"parse", "new"} /\ obj["_initialized"])
              => (err' = InternalError /\ obj' = obj)
      ]_vars

\* C29 happens: new() is called on a Long Allocation Descriptor that parse
\* initialized, and is refused.
C29_Witness ==
    /\ kind = "UDFLongAD"
    /\ hist.how = "parse"
    /\ op = "new"
    /\ hist.was
    /\ err = InternalError
    /\ obj["_initialized"]

\* The descriptors of the volume descriptor sequence, which set_location moves.
Relocated ==
    {"UDFPrimaryVolumeDescriptor", "UDFImplementationUseVolumeDescriptor",
     "UDFPartitionVolumeDescriptor", "UDFLogicalVolumeDescriptor",
     "UDFUnallocatedSpaceDescriptor", "UDFTerminatingDescriptor",
     "UDFLogicalVolumeIntegrityDescriptor"}

\* The records a and b are equal at every byte but the checksum (byte 4) and
\* the tag_location (bytes 12..15).
SameButPlace(a, b) ==
    /\ Len(a) = Len(b)
    /\ \A i \in 1..Len(a) : i \notin {5, 13, 14, 15, 16} => a[i] = b[i]

\* rec is what record() returned before a set_location that left the
\* tag_location loc, and b the outcome of record() after it: b returned, and
\* is rec at loc.
Moved(rec, b, loc) ==
    /\ b.err = NoError
    /\ SameButPlace(rec, b.ret)
    /\ UnpackFrom(b.ret, 12, 4) = loc

\* C30: for the Primary, Implementation Use, Partition, Logical Volume,
\* Unallocated Space, Terminating and Logical Volume Integrity descriptors,
\* what record() returns after set_location(N) is what it returned before at
\* every byte but byte 4 and bytes 12..15, which hold the tag_location that
\* was set: the body, desc_crc and desc_crc_length are the same; record()
\* leaves the object as it was and returns the same bytes when called again.
C30_RelocationBytes ==
    [][/\ (/\ kind \in Relocated
           /\ op = "record"
           /\ err = NoError
           /\ op' = "set_location"
           /\ err' = NoError)
              => Moved(ret, DoRecord(kind, obj', <<>>), obj'["desc_tag"]["tag_location"])
       /\ (kind \in Relocated /\ op' = "record" /\ err' = NoError) => obj' = obj
       /\ (kind \in Relocated /\ op = "record" /\ err = NoError /\ op' = "record")
              => (err' = NoError /\ ret' = ret)
      ]_vars

\* C30 happens: a Logical Volume Integrity Descriptor that was parsed is
\* moved to another location than the one its buffer held, and recorded.
C30_Witness ==
    /\ kind = "UDFLogicalVolumeIntegrityDescriptor"
    /\ hist.how = "parse"
    /\ op = "record"
    /\ err = NoError
    /\ hist.lastLoc # None
    /\ UnpackFrom(ret, 12, 4) = hist.lastLoc
    /\ hist.lastLoc # UnpackFrom(InputSeq[hist.input].data, 12, 4)
    /\ SameButPlace(ret, InputSeq[hist.input].data)

====
